---- MODULE Spec2Model ----
(***************************************************************************)
(* A model of genie::ROOTGeomAnalyzer (src/src/Geo/ROOTGeomAnalyzer.cxx):  *)
(* the boundary-to-boundary ray march of ComputePathLengths, the two       *)
(* passes of GenerateVertex and the bounded marches of SetVtxMaterial.     *)
(*                                                                         *)
(* Geometry is taken along the line of the ray: the x axis is cut in unit  *)
(* cells, one unit being the fixed step of GenerateVertex (StepIncrease),  *)
(* and a detector is a sequence of regions [lo, hi) of cells, each the     *)
(* node of one volume.  A point on a boundary belongs to the region ahead  *)
(* of it along the backend's current direction.  Positions beyond Far on   *)
(* either side stand for every point the float cursor can reach beyond the *)
(* detector.                                                               *)
(*                                                                         *)
(* The driver gNuMIevgen (src/src/support/numi/EvGen/gNuMIExptEvGen.cxx)   *)
(* is modelled from its command line to the end of its event loop.         *)
(*                                                                         *)
(* genie::PauliBlocker (src/src/EVGModules/PauliBlocker.cxx) is modelled   *)
(* in the two versions of ProcessEventRecord the file holds.               *)
(***************************************************************************)
EXTENDS Integers, Sequences, FiniteSets, TLC

\* ---------------------------------------------------------------- bounds
\* Positions run over -Far .. Far; every detector lies strictly inside.
Far == 4
\* The uniform draw of GenerateVertex is k / RndDen for k in 1 .. RndDen-1.
RndDen == 5
\* Points per face and rays per point of SetVtxMaterial (200 and 200 in the
\* source; the loops are the same for any count).
maxPoints == 1
maxRays == 1
\* The values given to the options -n and -e run over -1 .. MaxCount.
MaxCount == 2
\* The entries of the flux ntuple, one unit of POT each.
FluxEntries == 3
\* The global probability scale runs over 1/PscDen .. PscDen/PscDen.
PscDen == 2
\* An event record holds up to MaxParticles particles, of momentum
\* 0 .. MaxMomentum.
MaxParticles == 2
MaxMomentum == 2

\* ------------------------------------------------------- program constants
\* double StepIncrease(0.001): the unit of length of the model.
StepIncrease == 1
\* counterloop < 100 in ComputeMaxPathLength.
MaxCrossings == 100
\* -r Specifies the MC run number [default: 1000].
DefaultRunNu == 1000

\* The step the backend reports when no boundary lies ahead (TGeoShape::Big()),
\* larger than any distance inside -Far .. Far.
Big == 2 * Far + 1
\* The value of 0/0 and of everything computed from it.
NaN == 100 * Big

Abs(n) == IF n < 0 THEN -n ELSE n

\* ------------------------------------------------------------- materials
\* A and Z are kept in hundredths, as the doubles TGeoMaterial::GetA() and
\* GetZ() return; the code truncates them with (int).
IntOf(hundredths) == hundredths \div 100

\* pdg::IonPdgCode(A, Z): the ion code 1AAAZZZ000.
IonPdgCode(A, Z) == 1000000000 + A * 1000000 + Z * 1000

Element(a, z) == [A |-> a, Z |-> z]
Pure(a, z, rho) ==
    [mix |-> FALSE, A |-> a, Z |-> z, density |-> rho, elems |-> << >>]
Mixture(a, z, rho, els) ==
    [mix |-> TRUE, A |-> a, Z |-> z, density |-> rho, elems |-> els]

Vacuum == Pure(0, 0, 0)
Oxygen == Pure(1600, 800, 1)
Iron   == Pure(5585, 2600, 2)
\* Water: hydrogen and oxygen; the mixture's own A and Z are the mass-weighted
\* means 14.32 and 7.22.
Water  == Mixture(1432, 722, 1, << Element(101, 100), Element(1600, 800) >>)

\* A volume: its name, whether GetMedium() and GetMaterial() are non-null,
\* and the material.
Volume(n, hasMed, hasMat, m) ==
    [name |-> n, med |-> hasMed, mat |-> hasMat, material |-> m]
Region(l, h, v) == [lo |-> l, hi |-> h, vol |-> v]

\* ------------------------------------------------------------ geometries
\* 1: a single cube of oxygen, the top volume itself.
\* 2: slabs of oxygen, iron and oxygen in a world of vacuum.
\* 3: a slab of water and a slab of oxygen in a world of vacuum.
\* 4: an oxygen world holding a volume without medium and a volume whose
\*    medium has no material.
\* 5: as 2, with a top volume that is not named "World".
\* 6: a ball of vacuum, the top volume itself: its shape does not fill its
\*    bounding box.
Geometries ==
    << [vols    |-> << Volume("World", TRUE, TRUE, Oxygen) >>,
        regions |-> << Region(-2, 2, 1) >>],
       [vols    |-> << Volume("World", TRUE, TRUE, Vacuum),
                       Volume("SlabA", TRUE, TRUE, Oxygen),
                       Volume("SlabB", TRUE, TRUE, Iron),
                       Volume("SlabC", TRUE, TRUE, Oxygen) >>,
        regions |-> << Region(-2, -1, 2), Region(-1, 0, 3),
                       Region(0, 1, 4), Region(1, 2, 1) >>],
       [vols    |-> << Volume("World", TRUE, TRUE, Vacuum),
                       Volume("Tank", TRUE, TRUE, Water),
                       Volume("Slab", TRUE, TRUE, Oxygen) >>,
        regions |-> << Region(-2, 0, 2), Region(0, 1, 3), Region(1, 2, 1) >>],
       [vols    |-> << Volume("World", TRUE, TRUE, Oxygen),
                       Volume("Gap", FALSE, FALSE, Vacuum),
                       Volume("Hole", TRUE, FALSE, Vacuum) >>,
        regions |-> << Region(-2, -1, 1), Region(-1, 0, 2),
                       Region(0, 1, 1), Region(1, 2, 3) >>],
       [vols    |-> << Volume("Hall", TRUE, TRUE, Vacuum),
                       Volume("SlabA", TRUE, TRUE, Oxygen) >>,
        regions |-> << Region(-2, -1, 1), Region(-1, 1, 2), Region(1, 2, 1) >>],
       [vols    |-> << Volume("World", TRUE, TRUE, Vacuum) >>,
        regions |-> << Region(-1, 1, 1) >> ] >>

NGeom == Len(Geometries)

\* How far, along the line, the bounding box of the shape of the volume named
\* "World" reaches beyond the shape itself: nothing for a box.
BoxMargin == << 0, 0, 0, 0, 0, 1 >>

\* ------------------------------------------------------------------ state
VARIABLES
    geom,                \* fGeometry: index of the imported geometry, 0 if null
    fCurrPDGCodeList,
    fCurrPathLengthList,
    fCurrVertex,
    fMaterial,
    curDirection,        \* the backend's current direction
    curPoint,            \* the backend's current point
    pc,                  \* "idle", or the loop a call is in
    op,                  \* the last call begun
    x, p, tgtpdg,        \* its arguments
    xx, FlagNotInYet, condition, step,
    tick,                \* parity of the iterations the loop in progress has made
    dist, rnd, distToVtx,
    face, igen, Rgen, MaxPath, Length, counterloop, xyz, direction,
    xyzN,                \* xyz[k], k the axis normal to the face: the side of the box
    directionN,          \* direction[k]
    ntrials,             \* the marches the call of SetVtxMaterial has launched
    outcome,             \* how the last call ended
    retval,              \* the double SetVtxMaterial returned
    zeroP,               \* whether zero momenta are admitted
    trials,              \* the marches of ComputeMaxPathLength run side by side
    argv,                \* the command line of the driver
    gOptRunNu, gOptUsingRootGeom, gOptUsingHistFlux, gOptNev, gOptPOT,
    dpc,                 \* where the driver is
    status,              \* its exit status, -1 while it runs
    ievent,
    fpot,                \* the entries of the flux ntuple read so far
    psc,                 \* mcj_driver->GlobProbScale(), in units of 1/PscDen
    ntpwRunNu,           \* the run number the ntuple writer was given
    mcjmonitorRunNu,     \* the run number the job monitor was given
    records,             \* the indices of the records added to the output
    metNull,             \* the call resolved a volume without medium or material
    enteredTgt,          \* the first pass of GenerateVertex met the target code
    missObs,             \* the vertices returned by calls that never met it
    event_rec,           \* the GHepRecord given to the PauliBlocker
    fKFTable,            \* the Fermi momentum table the PauliBlocker holds
    ppc,                 \* where the PauliBlocker is
    called,              \* the version of ProcessEventRecord that was called
    exception            \* the EVGThreadException thrown, if any

analyzer == << geom, fCurrPDGCodeList, fCurrPathLengthList, fCurrVertex, fMaterial >>
backend  == << curDirection, curPoint >>
call     == << op, x, p, tgtpdg >>
marchLoc == << xx, FlagNotInYet, condition, step, tick >>
vtxLoc   == << dist, rnd, distToVtx >>
estLoc   == << face, igen, Rgen, MaxPath, Length, counterloop, xyz, direction,
               xyzN, directionN, ntrials >>
job      == << psc, ntpwRunNu, mcjmonitorRunNu >>
driver   == << argv, gOptRunNu, gOptUsingRootGeom, gOptUsingHistFlux, gOptNev,
               gOptPOT, dpc, status, ievent, fpot, job, records >>
ghost    == << zeroP, trials, driver, metNull, enteredTgt, missObs >>
pauli    == << event_rec, fKFTable, ppc, called, exception >>
vars     == << analyzer, backend, pc, call, marchLoc, vtxLoc, estLoc,
               outcome, retval, ghost, pauli >>

\* --------------------------------------------------- the geometry backend
\* TGeoManager, as the engine uses it.  It keeps a current direction and a
\* current point; FindNode resolves the node at a point, FindNextBoundary
\* measures from the current point along the current direction.

\* The index of the region holding cell c, 0 outside the top volume.
RegionsHolding(g, c) ==
    { i \in DOMAIN Geometries[g].regions :
        /\ Geometries[g].regions[i].lo <= c
        /\ c < Geometries[g].regions[i].hi }
PickRegion(rs) == IF rs = {} THEN 0 ELSE CHOOSE i \in rs : TRUE
RegionAtCell(g, c) == PickRegion(RegionsHolding(g, c))

CellAhead(pt, d) == IF d = 1 THEN pt ELSE pt - 1

\* FindNode(x, y, z): the nodes the backend may resolve.  One node for a
\* proper point and direction; with a NaN direction a boundary point may fall
\* on either side, and a NaN point may resolve anywhere.
FindNode(g, pt, d) ==
    IF pt = NaN THEN 0 .. Len(Geometries[g].regions)
    ELSE IF d = NaN THEN { RegionAtCell(g, pt), RegionAtCell(g, pt - 1) }
    ELSE { RegionAtCell(g, CellAhead(pt, d)) }

\* IsOutside()
IsOutside(node) == node = 0

\* GetCurrentVolume()
CurrentVolume(g, node) == Geometries[g].vols[Geometries[g].regions[node].vol]

\* FindNextBoundary(); GetStep(); while(!IsEntering()) Step(): the distance
\* from the current point to the next boundary along the current direction,
\* Big when no boundary lies ahead.
StepsToChange(g, c0, d) ==
    { s \in 1 .. 2 * Far : RegionAtCell(g, c0 + d * s) # RegionAtCell(g, c0) }
LeastStep(S) == IF S = {} THEN Big ELSE CHOOSE s \in S : \A t \in S : s <= t
StepToNextBoundary(g, pt, d) ==
    IF pt = NaN \/ d = NaN THEN NaN
    ELSE LeastStep(StepsToChange(g, CellAhead(pt, d), d))

\* A call that leaves the direction of the call before it.
StaleDirection(mom) == curDirection

\* p.Px()/p.P(): the momentum over its norm, 0/0 for a zero momentum.
DirectionOf(mom) == IF mom = 0 THEN NaN ELSE mom \div Abs(mom)

\* SetCurrentDirection(nx, ny, nz)
SetCurrentDirection(d) == d

\* SetCurrentPoint(xyz)
SetCurrentPoint(pt) == pt

\* ------------------------------------------------------- engine helpers
\* float xx: a cursor beyond the detector saturates.
Clamp(v) == IF v > Far THEN Far ELSE IF v < -Far THEN -Far ELSE v

\* A cursor advanced by the momentum itself, not by its direction.
AdvanceUnnormalised(cur, s, mom) ==
    IF cur = NaN \/ s = NaN \/ mom = 0 THEN NaN
    ELSE Clamp(cur + s * mom)

\* xx += step * p.Px()/p.P()
Advance(cur, s, mom) ==
    IF cur = NaN \/ s = NaN \/ mom = 0 THEN NaN
    ELSE Clamp(cur + (s * mom) \div Abs(mom))

\* Sum of two doubles.
AddD(a, b) == IF a = NaN \/ b = NaN THEN NaN ELSE a + b

\* PDGCodeList::push_back: appends a code the list does not hold yet.
PushBack(list, code) ==
    IF \E i \in DOMAIN list : list[i] = code THEN list ELSE Append(list, code)

\* The codes a material contributes: one per element of a mixture, its own
\* (A, Z) otherwise.
MaterialCodes(m) ==
    IF m.mix
    THEN [i \in DOMAIN m.elems |->
            IonPdgCode(IntOf(m.elems[i].A), IntOf(m.elems[i].Z))]
    ELSE << IonPdgCode(IntOf(m.A), IntOf(m.Z)) >>

RECURSIVE PushAll(_, _, _)
PushAll(list, codes, i) ==
    IF i > Len(codes) THEN list
    ELSE PushAll(PushBack(list, codes[i]), codes, i + 1)

\* A registration that files a mixture under the (A, Z) of the material
\* itself instead of those of its elements.
AddVolumeCodesOwn(list, v) ==
    IF v.med /\ v.mat
    THEN PushBack(list, IonPdgCode(IntOf(v.material.A), IntOf(v.material.Z)))
    ELSE list

\* BuildListOfTargetNuclei: walks the first n volumes of the list.
\* The codes of one volume, lines 716-747.
AddVolumeCodes(list, v) ==
    IF v.med /\ v.mat THEN PushAll(list, MaterialCodes(v.material), 1)
    ELSE list

RECURSIVE BuildListOfTargetNuclei(_, _)
BuildListOfTargetNuclei(g, n) ==
    IF g = 0 \/ n = 0 THEN << >>
    ELSE AddVolumeCodes(BuildListOfTargetNuclei(g, n - 1),
                        Geometries[g].vols[n])

ListOfTargetNuclei(g) ==
    IF g = 0 THEN << >>
    ELSE BuildListOfTargetNuclei(g, Len(Geometries[g].vols))

\* new PathLengthList(pdglist): one entry per registered code, zero.
NewPathLengthList(pdglist) ==
    [c \in { pdglist[i] : i \in DOMAIN pdglist } |-> 0]

\* PathLengthList::SetAllToZero
SetAllToZero(list) == [c \in DOMAIN list |-> 0]

\* PathLengthList::AddPathLength: adds to the entry of a registered code.
AddPathLength(list, code, s) ==
    IF code \in DOMAIN list THEN [list EXCEPT ![code] = AddD(@, s)] ELSE list

\* ------------------------------------------------------------ call inputs
\* Ray origins x.X() and momenta p.Px(); the zero momentum is drawn only when
\* degenerate rays are admitted (SpecDegenerate).
Origins == -(Far - 1) .. (Far - 1)
Momenta == { -1, 2 }
\* Target codes asked of GenerateVertex and SetVtxMaterial: oxygen, hydrogen
\* and the code of the vacuum material.
Targets == { IonPdgCode(16, 8), IonPdgCode(1, 1), IonPdgCode(0, 0) }

\* The command line of no run of the driver: the analyzer is used by itself.
NoCommandLine ==
    [h |-> FALSE, r |-> << >>, g |-> "absent", f |-> "absent", n |-> << >>,
     e |-> << >>]

\* No event record has been given to a PauliBlocker.
NoException == [thrown |-> FALSE, reason |-> "", fastForward |-> FALSE]
NoPauli ==
    /\ event_rec = [target |-> [IsNucleus |-> FALSE, PDGCode |-> 0],
                    recoil |-> 0, particles |-> << >>, flags |-> {},
                    IsPauliBlocked |-> FALSE]
    /\ fKFTable = "none" /\ ppc = "none" /\ called = "none"
    /\ exception = NoException

NoDriver ==
    /\ argv = NoCommandLine
    /\ gOptRunNu = 0
    /\ gOptUsingRootGeom = FALSE /\ gOptUsingHistFlux = FALSE
    /\ gOptNev = 0 /\ gOptPOT = 0
    /\ dpc = "none" /\ status = -1 /\ ievent = 0 /\ fpot = 0
    /\ psc = PscDen /\ ntpwRunNu = 0 /\ mcjmonitorRunNu = 0
    /\ records = << >>

\* ----------------------------------------------------------- construction
\* ROOTGeomAnalyzer(filename) -> Initialize: the geometry is imported (or the
\* import fails and fGeometry is null), the list of target nuclei is built,
\* the path-length list and the vertex are created.  BuildListOfTargetNuclei
\* dereferences the medium and the material of every volume: with a volume
\* that lacks one the construction may already end in a crash.
InitWith(z) ==
    /\ geom \in 0 .. NGeom
    /\ fCurrPDGCodeList = ListOfTargetNuclei(geom)
    /\ fCurrPathLengthList = NewPathLengthList(fCurrPDGCodeList)
    /\ fCurrVertex = 0
    /\ fMaterial = 0
    /\ curDirection = 1
    /\ curPoint = 0
    /\ pc = "idle"
    /\ op = "none" /\ x = 0 /\ p = 1 /\ tgtpdg = 0
    /\ xx = 0 /\ FlagNotInYet = 0 /\ condition = TRUE /\ step = 0 /\ tick = 0
    /\ dist = 0 /\ rnd = 0 /\ distToVtx = 0
    /\ face = 0 /\ igen = 0 /\ Rgen = 0 /\ MaxPath = 0 /\ Length = 0
    /\ counterloop = 0 /\ xyz = 0 /\ direction = 1 /\ ntrials = 0
    /\ xyzN = 0 /\ directionN = 0
    /\ outcome \in IF geom # 0 /\ \E i \in DOMAIN Geometries[geom].vols :
                        ~(Geometries[geom].vols[i].med /\ Geometries[geom].vols[i].mat)
                   THEN { "none", "crashed" } ELSE { "none" }
    /\ retval = 0
    /\ zeroP = z
    /\ trials = << >>
    /\ NoDriver
    /\ NoPauli
    /\ metNull = FALSE
    /\ enteredTgt = FALSE
    /\ missObs = {}

Init == InitWith(FALSE)

MomentaDrawn == IF zeroP THEN Momenta \cup { 0 } ELSE Momenta

\* ----------------------------------------------------- ListOfTargetNuclei
\* An accessor that builds its list anew: new PDGCodeList, not filled.
NewPDGCodeList(list) == << >>

\* return *fCurrPDGCodeList, line 340.
HeldPDGCodeList(list) == list

\* A listing that zeroes the path lengths on its way.
ListOfTargetNucleiClearing ==
    /\ pc = "idle" /\ outcome # "crashed"
    /\ op' = "ListOfTargetNuclei" /\ outcome' = "returned"
    /\ fCurrPDGCodeList' = HeldPDGCodeList(fCurrPDGCodeList)
    /\ fCurrPathLengthList' = SetAllToZero(fCurrPathLengthList)
    /\ x' = 0 /\ p' = 1 /\ tgtpdg' = 0 /\ retval' = 0
    /\ dist' = 0 /\ rnd' = 0 /\ distToVtx' = 0
    /\ metNull' = FALSE /\ enteredTgt' = FALSE
    /\ UNCHANGED << geom, fCurrVertex, fMaterial,
                    backend, pc, marchLoc, estLoc, zeroP, trials, driver, pauli, missObs >>

\* ListOfTargetNuclei(), lines 338-341: hands out the list the analyzer holds.
ListOfTargetNucleiCall ==
    /\ pc = "idle" /\ outcome # "crashed"
    /\ op' = "ListOfTargetNuclei" /\ outcome' = "returned"
    /\ fCurrPDGCodeList' = HeldPDGCodeList(fCurrPDGCodeList)
    /\ x' = 0 /\ p' = 1 /\ tgtpdg' = 0 /\ retval' = 0
    /\ dist' = 0 /\ rnd' = 0 /\ distToVtx' = 0
    /\ metNull' = FALSE /\ enteredTgt' = FALSE
    /\ UNCHANGED << geom, fCurrPathLengthList, fCurrVertex, fMaterial,
                    backend, pc, marchLoc, estLoc, zeroP, trials, driver, pauli, missObs >>

\* ---------------------------------------------------- ComputePathLengths
\* The element loop of a mixture (lines 435-458), and the single material
\* (lines 462-479) as a loop of one: for each code the step to the next
\* boundary is measured from the backend's current point, added to the code's
\* entry, and the cursor is advanced by it.

\* A pass that adds the signed displacement of the cursor, step * px / |p|,
\* to the code's entry instead of the step.
AttributeDisplacement(acc, code, s, mom) ==
    [list |-> AddPathLength(acc.list, code, Advance(0, s, mom)),
     xx |-> Advance(acc.xx, s, mom)]

\* One pass of the element loop: the step is added to the code's entry and
\* the cursor is advanced by it.
AttributeStep(acc, code, s, mom) ==
    [list |-> AddPathLength(acc.list, code, s), xx |-> Advance(acc.xx, s, mom)]

\* An element loop that measures each step from the advanced cursor.
RECURSIVE AttributeStepsFromCursor(_, _, _, _, _, _, _)
AttributeStepsFromCursor(g, acc, pt, d, mom, codes, i) ==
    IF i > Len(codes) THEN acc
    ELSE AttributeStepsFromCursor(
             g, AttributeStep(acc, codes[i],
                              StepToNextBoundary(g, acc.xx, d), mom),
             pt, d, mom, codes, i + 1)

\* for(int i=0;i<Nelements;i++), lines 435-458: every pass measures the step
\* anew, from the point the backend was last given.
RECURSIVE AttributeSteps(_, _, _, _, _, _, _)
AttributeSteps(g, acc, pt, d, mom, codes, i) ==
    IF i > Len(codes) THEN acc
    ELSE AttributeSteps(
             g, AttributeStep(acc, codes[i], StepToNextBoundary(g, pt, d), mom),
             pt, d, mom, codes, i + 1)

\* A march that any outside point ends, entered or not.
CPLOutsideEnds(g, list, cur, flag, pt, d, mom) ==
    [list |-> list, xx |-> cur, flag |-> flag, condition |-> FALSE,
     exit |-> TRUE, null |-> FALSE]

\* Lines 387-405: outside every volume.
CPLOutside(g, list, cur, flag, pt, d, mom) ==
    IF flag = 1
    THEN [list |-> list, xx |-> cur, flag |-> flag, condition |-> FALSE,
          exit |-> TRUE, null |-> FALSE]
    ELSE [list |-> list,
          xx |-> Advance(cur, StepToNextBoundary(g, pt, d), mom),
          flag |-> flag, condition |-> FALSE,
          exit |-> FALSE, null |-> FALSE]

\* A march that ends with the first segment it attributes.
CPLAttributedEnds(r) ==
    [list |-> r.list, xx |-> r.xx, flag |-> 1, condition |-> FALSE,
     exit |-> TRUE, null |-> FALSE]

\* Lines 429-480, once the lengths are attributed.
CPLAttributed(r) ==
    [list |-> r.list, xx |-> r.xx, flag |-> 1, condition |-> TRUE,
     exit |-> FALSE, null |-> FALSE]

\* Lines 407-480: inside the volume v.
CPLInside(g, list, cur, pt, d, mom, v) ==
    IF ~(v.med /\ v.mat)
    THEN [list |-> list, xx |-> cur, flag |-> 1, condition |-> FALSE,
          exit |-> TRUE, null |-> TRUE]
    ELSE CPLAttributed(AttributeSteps(g, [list |-> list, xx |-> cur], pt, d,
                                      mom, MaterialCodes(v.material), 1))

\* One iteration of while((!FlagNotInYet) || condition), lines 371-483, on
\* the node FindNode resolved.  exit: the loop ends with this iteration;
\* null: the iteration met a volume without medium or material.
CPLIteration(g, list, cur, flag, pt, d, mom, node) ==
    IF IsOutside(node) THEN CPLOutside(g, list, cur, flag, pt, d, mom)
    ELSE CPLInside(g, list, cur, pt, d, mom, CurrentVolume(g, node))

\* The locals of a call that has ended.
LocalsReset ==
    /\ xx' = 0 /\ FlagNotInYet' = 0 /\ condition' = TRUE /\ step' = 0
    /\ tick' = 0
    /\ distToVtx' = 0
    /\ face' = 0 /\ igen' = 0 /\ Rgen' = 0 /\ MaxPath' = 0 /\ Length' = 0
    /\ counterloop' = 0 /\ xyz' = 0 /\ direction' = 1 /\ ntrials' = 0
    /\ xyzN' = 0 /\ directionN' = 0

\* ComputePathLengths(x, p), lines 343-369: the list is zeroed, the locals
\* are set and the backend is given the direction.  With a null fGeometry the
\* call on it is undefined and ends in a crash.
ComputePathLengths ==
    /\ pc = "idle" /\ outcome # "crashed"
    /\ \E x0 \in Origins, p0 \in MomentaDrawn :
         /\ op' = "ComputePathLengths" /\ x' = x0 /\ p' = p0
         /\ fCurrPathLengthList' = SetAllToZero(fCurrPathLengthList)
         /\ xx' = x0
         /\ IF geom = 0
            THEN /\ outcome' = "crashed" /\ pc' = "idle"
                 /\ UNCHANGED curDirection
            ELSE /\ outcome' = "none" /\ pc' = "cpl"
                 /\ curDirection' = SetCurrentDirection(DirectionOf(p0))
    /\ tgtpdg' = 0 /\ retval' = 0
    /\ FlagNotInYet' = 0 /\ condition' = TRUE /\ step' = 0 /\ tick' = 0
    /\ dist' = 0 /\ rnd' = 0 /\ distToVtx' = 0
    /\ metNull' = FALSE /\ enteredTgt' = FALSE
    /\ UNCHANGED << geom, fCurrPDGCodeList, fCurrVertex, fMaterial, curPoint,
                    estLoc, zeroP, trials, driver, pauli, missObs >>

\* The state after an iteration that gave r.
CPLAfter(r) ==
    /\ fCurrPathLengthList' = r.list
    /\ metNull' = (metNull \/ r.null)
    /\ IF r.exit
       THEN /\ pc' = "idle"
            /\ outcome' \in IF r.null THEN { "returned", "crashed" }
                            ELSE { "returned" }
            /\ LocalsReset
       ELSE /\ pc' = "cpl" /\ outcome' = outcome
            /\ xx' = r.xx /\ FlagNotInYet' = r.flag
            /\ condition' = r.condition
            /\ tick' = 1 - tick
            /\ UNCHANGED << step, distToVtx, estLoc >>

\* One iteration of the march of ComputePathLengths, with the return at line
\* 484 when it ends the loop.  A volume without medium or material is
\* dereferenced by the LOG lines 413 and 421 before it is tested: the call
\* crashes there, or the test sets condition to false and the loop ends.
CPLStep ==
    /\ pc = "cpl"
    /\ curPoint' = SetCurrentPoint(xx)
    /\ \E node \in FindNode(geom, curPoint', curDirection) :
         CPLAfter(CPLIteration(geom, fCurrPathLengthList, xx, FlagNotInYet,
                               curPoint', curDirection, p, node))
    /\ UNCHANGED << geom, fCurrPDGCodeList, fCurrVertex, fMaterial,
                    curDirection, call, dist, rnd, retval, zeroP, trials, driver, pauli, enteredTgt,
                    missObs >>

\* -------------------------------------------------------- GenerateVertex
\* Product and comparison of doubles.
MulD(a, b) == IF a = NaN \/ b = NaN THEN NaN ELSE a * b
LessD(a, b) == a # NaN /\ b # NaN /\ a < b

\* int ion_pdgc = pdg::IonPdgCode((int) mat->GetA(), mat->GetZ()): the code
\* GenerateVertex and ComputeMaxPathLength give a material, mixture or not.
OwnCode(m) == IonPdgCode(IntOf(m.A), IntOf(m.Z))

\* if(ion_pdgc == tgtpdg) dist += (step*density), line 600.
WeightedStep(m, tgt, s) == IF OwnCode(m) = tgt THEN MulD(s, m.density) ELSE 0

\* Lines 543-561: outside every volume.
GVOutside(g, dst, cur, flag, pt, d, mom) ==
    IF flag = 1
    THEN [dist |-> dst, xx |-> cur, flag |-> flag, condition |-> FALSE,
          exit |-> TRUE, null |-> FALSE, hit |-> FALSE]
    ELSE [dist |-> dst,
          xx |-> Advance(cur, StepToNextBoundary(g, pt, d), mom),
          flag |-> flag, condition |-> FALSE,
          exit |-> FALSE, null |-> FALSE, hit |-> FALSE]

\* A pass that counts the step and leaves the cursor where it is.
GVCountedInPlace(dst, cur, mom, tgt, m, s) ==
    [dist |-> AddD(dst, WeightedStep(m, tgt, s)),
     xx |-> cur, flag |-> 1,
     condition |-> TRUE, exit |-> FALSE, null |-> FALSE,
     hit |-> (OwnCode(m) = tgt)]

\* Lines 585-606: the step s through the material m.
GVCounted(dst, cur, mom, tgt, m, s) ==
    [dist |-> AddD(dst, WeightedStep(m, tgt, s)),
     xx |-> Advance(cur, s, mom), flag |-> 1,
     condition |-> TRUE, exit |-> FALSE, null |-> FALSE,
     hit |-> (OwnCode(m) = tgt)]

\* Lines 563-606: inside the volume v.
GVInside(g, dst, cur, pt, d, mom, tgt, v) ==
    IF ~(v.med /\ v.mat)
    THEN [dist |-> dst, xx |-> cur, flag |-> 1, condition |-> FALSE,
          exit |-> TRUE, null |-> TRUE, hit |-> FALSE]
    ELSE GVCounted(dst, cur, mom, tgt, v.material,
                   StepToNextBoundary(g, pt, d))

\* One iteration of the first loop of GenerateVertex, lines 527-607.
GVIteration(g, dst, cur, flag, pt, d, mom, tgt, node) ==
    IF IsOutside(node) THEN GVOutside(g, dst, cur, flag, pt, d, mom)
    ELSE GVInside(g, dst, cur, pt, d, mom, tgt, CurrentVolume(g, node))

\* distToVtx < distVertex, with distVertex = r3.Rndm() * dist and the draw
\* k / RndDen.
BelowDrawn(dtv, k, dst) ==
    LessD(MulD(dtv, RndDen), MulD(k, dst))

\* Lines 659-688: inside the volume v.
VtxInside(dtv, tgt, v) ==
    IF ~(v.med /\ v.mat)
    THEN [distToVtx |-> dtv, flag |-> 1, condition |-> FALSE,
          break |-> FALSE, null |-> TRUE]
    ELSE [distToVtx |->
            AddD(dtv, WeightedStep(v.material, tgt, StepIncrease)),
          flag |-> 1, condition |-> TRUE,
          break |-> FALSE, null |-> FALSE]

\* One iteration of the second loop of GenerateVertex, lines 632-690: the
\* cursor is stepped first, then the node at it is resolved.
VtxIteration(g, dtv, cur, flag, tgt, node) ==
    IF IsOutside(node)
    THEN [distToVtx |-> dtv, flag |-> flag, condition |-> FALSE,
          break |-> (flag = 1), null |-> FALSE]
    ELSE VtxInside(dtv, tgt, CurrentVolume(g, node))

\* A cursor stepped back twice.
VertexSteppedBackTwice(cur, mom) == Advance(cur, -2 * StepIncrease, mom)

\* xx -= StepIncrease * p.Px()/p.P(); fCurrVertex->SetXYZ(xx,yy,zz), lines
\* 692-696.
VertexFrom(cur, mom) == Advance(cur, -StepIncrease, mom)

\* GenerateVertex(x, p, tgtpdg), lines 488-525: the vertex is reset; with no
\* geometry it is returned at once.
GenerateVertex ==
    /\ pc = "idle" /\ outcome # "crashed"
    /\ \E x0 \in Origins, p0 \in MomentaDrawn, t \in Targets :
         /\ op' = "GenerateVertex" /\ x' = x0 /\ p' = p0 /\ tgtpdg' = t
         /\ fCurrVertex' = 0
         /\ xx' = x0
         /\ IF geom = 0
            THEN /\ outcome' = "returned" /\ pc' = "idle"
                 /\ missObs' = missObs \cup { fCurrVertex' }
                 /\ UNCHANGED curDirection
            ELSE /\ outcome' = "none" /\ pc' = "gv"
                 /\ missObs' = missObs
                 /\ curDirection' = SetCurrentDirection(DirectionOf(p0))
    /\ FlagNotInYet' = 0 /\ condition' = TRUE /\ step' = 0 /\ tick' = 0
    /\ retval' = 0
    /\ dist' = 0 /\ rnd' = 0 /\ distToVtx' = 0
    /\ metNull' = FALSE /\ enteredTgt' = FALSE
    /\ UNCHANGED << geom, fCurrPDGCodeList, fCurrPathLengthList, fMaterial,
                    curPoint, estLoc, zeroP, trials, driver, pauli >>

\* The return of lines 609-613, or of a crash: the call ends.
GVReturn(o) ==
    /\ pc' = "idle" /\ outcome' = o /\ rnd' = rnd
    /\ missObs' = IF o = "returned" /\ ~enteredTgt'
                  THEN missObs \cup { fCurrVertex }
                  ELSE missObs
    /\ LocalsReset

\* Lines 616-630: the draw, and the cursor back on the origin.
GVDraw ==
    /\ pc' = "vtx" /\ outcome' = outcome
    /\ missObs' = missObs
    /\ rnd' \in 1 .. RndDen - 1
    /\ xx' = x /\ FlagNotInYet' = 0
    /\ condition' = TRUE /\ tick' = 0
    /\ UNCHANGED << step, distToVtx, estLoc >>

\* The state after an iteration of the first loop that gave r.
GVAfter(r) ==
    /\ dist' = r.dist
    /\ metNull' = (metNull \/ r.null)
    /\ enteredTgt' = (enteredTgt \/ r.hit)
    /\ IF ~r.exit
       THEN /\ pc' = "gv" /\ outcome' = outcome /\ rnd' = rnd
            /\ missObs' = missObs
            /\ xx' = r.xx /\ FlagNotInYet' = r.flag
            /\ condition' = r.condition
            /\ tick' = 1 - tick
            /\ UNCHANGED << step, distToVtx, estLoc >>
       ELSE \/ r.null /\ GVReturn("crashed")
            \/ r.dist = 0 /\ GVReturn("returned")
            \/ r.dist # 0 /\ GVDraw

\* One iteration of the first loop; when it ends the loop, lines 609-630
\* follow: with dist == 0 the zero vertex is returned, otherwise the distance
\* of the vertex is drawn and the cursor is put back on the origin.
GVStep ==
    /\ pc = "gv"
    /\ curPoint' = SetCurrentPoint(xx)
    /\ \E node \in FindNode(geom, curPoint', curDirection) :
         GVAfter(GVIteration(geom, dist, xx, FlagNotInYet, curPoint',
                             curDirection, p, tgtpdg, node))
    /\ UNCHANGED << geom, fCurrPDGCodeList, fCurrPathLengthList, fCurrVertex,
                    fMaterial, curDirection, call, retval, zeroP, trials, driver, pauli >>

\* The state after an iteration of the second loop that stepped the cursor
\* to cur and gave r; when it ends the loop the cursor is stepped back once
\* and becomes the vertex.
VtxAfter(cur, r) ==
    /\ metNull' = (metNull \/ r.null)
    /\ IF /\ ~r.break
          /\ (r.flag = 0 \/ r.condition)
          /\ BelowDrawn(r.distToVtx, rnd, dist)
       THEN /\ pc' = "vtx" /\ outcome' = outcome
            /\ xx' = cur /\ FlagNotInYet' = r.flag
            /\ condition' = r.condition
            /\ distToVtx' = r.distToVtx
            /\ fCurrVertex' = fCurrVertex
            /\ tick' = 1 - tick
            /\ UNCHANGED << step, estLoc >>
       ELSE /\ pc' = "idle"
            /\ outcome' \in IF r.null THEN { "returned", "crashed" }
                            ELSE { "returned" }
            /\ fCurrVertex' = IF outcome' = "crashed" THEN fCurrVertex
                              ELSE VertexFrom(cur, p)
            /\ LocalsReset

\* The body of the second loop with the cursor stepped to cur.
VtxAt(cur) ==
    /\ curPoint' = SetCurrentPoint(cur)
    /\ \E node \in FindNode(geom, cur, curDirection) :
         VtxAfter(cur, VtxIteration(geom, distToVtx, cur, FlagNotInYet,
                                    tgtpdg, node))

\* One iteration of the second loop, or its end when the test
\* distToVtx < distVertex fails at once.
VtxStep ==
    /\ pc = "vtx"
    /\ IF BelowDrawn(distToVtx, rnd, dist)
       THEN VtxAt(Advance(xx, StepIncrease, p))
       ELSE /\ curPoint' = curPoint
            /\ VtxAfter(xx, [distToVtx |-> distToVtx, flag |-> FlagNotInYet,
                             condition |-> condition, break |-> TRUE,
                             null |-> FALSE])
    /\ UNCHANGED << geom, fCurrPDGCodeList, fCurrPathLengthList, fMaterial,
                    curDirection, call, dist, rnd, retval, zeroP, trials, driver, pauli, enteredTgt,
                    missObs >>

\* -------------------------------------------------------- SetVtxMaterial
\* fCurrPDGCodeList->ExistsInPDGCodeList(pdgc)
ExistsInPDGCodeList(list, code) == \E i \in DOMAIN list : list[i] = code

\* A search that takes whatever volume the list holds.
AnyVolumeFound(g) == Len(Geometries[g].vols) > 0

\* The loop of lines 94-104: whether a volume of the list is named "World".
WorldFound(g) ==
    \E i \in DOMAIN Geometries[g].vols : Geometries[g].vols[i].name = "World"

\* The extent of the top volume along x.
BoxLo(g) ==
    CHOOSE l \in -Far .. Far :
        /\ \E i \in DOMAIN Geometries[g].regions : Geometries[g].regions[i].lo = l
        /\ \A i \in DOMAIN Geometries[g].regions : Geometries[g].regions[i].lo >= l
BoxHi(g) ==
    CHOOSE h \in -Far .. Far :
        /\ \E i \in DOMAIN Geometries[g].regions : Geometries[g].regions[i].hi = h
        /\ \A i \in DOMAIN Geometries[g].regions : Geometries[g].regions[i].hi <= h

\* TGeoBBox *box=(TGeoBBox *)TS, lines 115-123: the bounding box of the shape
\* along x, origin minus and plus DX.
BBoxLo(g) == BoxLo(g) - BoxMargin[g]
BBoxHi(g) == BoxHi(g) + BoxMargin[g]

\* An estimator that lacks the sixth block.
FiveFaces == << "top", "bottom", "left", "right", "back" >>

\* The six blocks of lines 142-316, in their order.
Faces == << "top", "bottom", "left", "right", "back", "front" >>

\* xyz[0] of a point drawn on a face: ox-dx on the left face, ox+dx on the
\* right face, ox-dx+2*dx*Rndm() strictly between them on the other four.
FacePoints(g, f) ==
    IF Faces[f] = "left" THEN { BBoxLo(g) }
    ELSE IF Faces[f] = "right" THEN { BBoxHi(g) }
    ELSE (BBoxLo(g) + 1) .. (BBoxHi(g) - 1)

\* The axis normal to each face.
FaceAxis == << "y", "y", "x", "x", "z", "z" >>

\* xyz[k] of a point drawn on a face, k the axis normal to it, as the side
\* of the box it is on: oy+dy on top, ox+dx on the right face and oz+dz on
\* the front face (1), oy-dy, ox-dx and oz-dz on the other three (-1).
FaceSide(f) == IF Faces[f] \in { "top", "right", "front" } THEN 1 ELSE -1

\* Six blocks of which the last draws direction[2] as the fifth does.
FaceNormalDirectionsCopied(f) ==
    IF Faces[f] \in { "top", "right" } THEN { -1 } ELSE { 1 }

\* direction[k] of a ray drawn on a face, k the axis normal to it:
\* -Rndm() < 0 on top, the right face and the front face, Rndm() > 0 on the
\* other three; the division by dirTot keeps the sign.
FaceNormalDirections(f) ==
    IF Faces[f] \in { "top", "right", "front" } THEN { -1 } ELSE { 1 }

\* direction[0] / dirTot of a ray drawn on a face, along the line of the
\* model: Rndm() > 0 on the left face, -Rndm() < 0 on the right face,
\* -0.5+Rndm() of either sign on the other four.
FaceDirections(f) ==
    IF Faces[f] = "left" THEN { 1 }
    ELSE IF Faces[f] = "right" THEN { -1 }
    ELSE { -1, 1 }

\* A loop test that lacks the bound on counterloop.
NoCap(n) == TRUE

\* counterloop <100, the second conjunct of the loop test of line 769.
WithinCap(n) == n < MaxCrossings

\* if(ion_pdgc == pdgc) Length += step, line 835.
LengthStep(m, tgt, s) == IF OwnCode(m) = tgt THEN s ELSE 0

\* Lines 784-802: outside every volume.
CMPLOutside(g, len, cur, flag, pt, d, own) ==
    IF flag = 1
    THEN [Length |-> len, xx |-> cur, flag |-> flag, condition |-> FALSE,
          exit |-> TRUE]
    ELSE [Length |-> len,
          xx |-> Advance(cur, StepToNextBoundary(g, pt, d), own),
          flag |-> flag, condition |-> FALSE, exit |-> FALSE]

\* Lines 821-840: the step s through the material m.
CMPLCounted(len, cur, own, tgt, m, s) ==
    [Length |-> AddD(len, LengthStep(m, tgt, s)),
     xx |-> Advance(cur, s, own), flag |-> 1,
     condition |-> TRUE, exit |-> FALSE]

\* Lines 804-840: inside the volume v.  The medium and the material are
\* tested before any use.
CMPLInside(g, len, cur, pt, d, own, tgt, v) ==
    IF ~(v.med /\ v.mat)
    THEN [Length |-> len, xx |-> cur, flag |-> 1, condition |-> FALSE,
          exit |-> TRUE]
    ELSE CMPLCounted(len, cur, own, tgt, v.material,
                     StepToNextBoundary(g, pt, d))

\* One iteration of the loop of ComputeMaxPathLength, lines 769-841: the
\* backend measures from its current point pt along its current direction
\* d, the cursor is advanced along the direction own of the march.
CMPLIteration(g, len, cur, flag, pt, d, own, tgt, node) ==
    IF IsOutside(node) THEN CMPLOutside(g, len, cur, flag, pt, d, own)
    ELSE CMPLInside(g, len, cur, pt, d, own, tgt, CurrentVolume(g, node))

\* A comparison that is left out: MaxPath=Length after every march.
LastLength(mp, len) == len

\* if(Length>MaxPath) MaxPath=Length
MaxOf(mp, len) == IF len > mp THEN len ELSE mp

\* SetVtxMaterial(pdgc), lines 53-140: the three refusals, or the start of
\* the first block of trials.
SetVtxMaterial ==
    /\ pc = "idle" /\ outcome # "crashed"
    /\ \E t \in Targets :
         /\ op' = "SetVtxMaterial" /\ tgtpdg' = t
         /\ IF \/ geom = 0
               \/ ~ExistsInPDGCodeList(fCurrPDGCodeList, t)
               \/ ~WorldFound(geom)
            THEN /\ fMaterial' = -1
                 /\ pc' = "idle" /\ outcome' = "returned"
                 /\ face' = 0
            ELSE /\ fMaterial' = t
                 /\ pc' = "point" /\ outcome' = "none"
                 /\ face' = 1
    /\ x' = 0 /\ p' = 1 /\ retval' = 0
    /\ igen' = 0 /\ Rgen' = 0 /\ MaxPath' = 0 /\ Length' = 0 /\ ntrials' = 0
    /\ dist' = 0 /\ rnd' = 0 /\ distToVtx' = 0
    /\ metNull' = FALSE /\ enteredTgt' = FALSE
    /\ UNCHANGED << geom, fCurrPDGCodeList, fCurrPathLengthList, fCurrVertex,
                    backend, marchLoc, counterloop, xyz, direction, xyzN,
                    directionN, zeroP, trials, driver, pauli, missObs >>

\* while(igen<maxPoints) of a block: the next point on the face, or the next
\* block, or return MaxPath after the sixth.
SVMPoint ==
    /\ pc = "point"
    /\ IF igen < maxPoints
       THEN /\ igen' = igen + 1
            /\ xyz' \in FacePoints(geom, face)
            /\ xyzN' = FaceSide(face)
            /\ Rgen' = 0
            /\ pc' = "ray"
            /\ UNCHANGED << face, retval, outcome, MaxPath, Length, counterloop,
                            direction, directionN, ntrials, marchLoc,
                            distToVtx >>
       ELSE IF face < Len(Faces)
       THEN /\ face' = face + 1 /\ igen' = 0
            /\ pc' = "point"
            /\ UNCHANGED << Rgen, xyz, xyzN, retval, outcome, MaxPath, Length,
                            counterloop, direction, directionN, ntrials,
                            marchLoc, distToVtx >>
       ELSE /\ retval' = MaxPath
            /\ pc' = "idle" /\ outcome' = "returned"
            /\ LocalsReset
    /\ UNCHANGED << analyzer, backend, call, dist, rnd, ghost, pauli >>

\* while(Rgen<maxRays): the next direction, normalised, and the call of
\* ComputeMaxPathLength(xyz, direction, pdgc), lines 753-767.
SVMRay ==
    /\ pc = "ray"
    /\ IF Rgen < maxRays
       THEN /\ Rgen' = Rgen + 1
            /\ direction' \in FaceDirections(face)
            /\ directionN' \in FaceNormalDirections(face)
            /\ FaceAxis[face] = "x" => directionN' = direction'
            /\ counterloop' = 0 /\ Length' = 0
            /\ FlagNotInYet' = 0 /\ condition' = TRUE
            /\ xx' = xyz
            /\ curDirection' = SetCurrentDirection(direction')
            /\ ntrials' = ntrials + 1
            /\ pc' = "cmpl"
       ELSE /\ pc' = "point"
            /\ UNCHANGED << Rgen, direction, directionN, counterloop, Length,
                            FlagNotInYet, condition, xx, curDirection,
                            ntrials >>
    /\ UNCHANGED << analyzer, curPoint, call, step, tick, vtxLoc, face, igen,
                    MaxPath, xyz, xyzN, outcome, retval, ghost, pauli >>

\* The state after an iteration that gave r.
CMPLAfter(r) ==
    /\ Length' = r.Length
    /\ IF r.exit
       THEN /\ MaxPath' = MaxOf(MaxPath, r.Length)
            /\ pc' = "ray"
            /\ UNCHANGED << xx, FlagNotInYet, condition >>
       ELSE /\ xx' = r.xx /\ FlagNotInYet' = r.flag
            /\ condition' = r.condition
            /\ pc' = "cmpl"
            /\ UNCHANGED MaxPath

\* One iteration of the bounded march; when it ends the loop the length is
\* returned and compared with MaxPath (lines 165-167 and their copies).
CMPLStep ==
    /\ pc = "cmpl"
    /\ IF WithinCap(counterloop)
       THEN /\ curPoint' = SetCurrentPoint(xx)
            /\ counterloop' = counterloop + 1
            /\ \E node \in FindNode(geom, curPoint', curDirection) :
                 CMPLAfter(CMPLIteration(geom, Length, xx, FlagNotInYet,
                                         curPoint', curDirection, direction,
                                         tgtpdg, node))
       ELSE /\ MaxPath' = MaxOf(MaxPath, Length)
            /\ pc' = "ray"
            /\ UNCHANGED << curPoint, counterloop, Length, xx, FlagNotInYet,
                            condition >>
    /\ UNCHANGED << analyzer, curDirection, call, step, tick, vtxLoc, face, igen,
                    Rgen, xyz, direction, xyzN, directionN, ntrials, outcome,
                    retval, ghost, pauli >>

March == CPLStep \/ GVStep \/ VtxStep \/ SVMPoint \/ SVMRay \/ CMPLStep

Next ==
    \/ ListOfTargetNucleiCall
    \/ ComputePathLengths \/ GenerateVertex \/ SetVtxMaterial \/ March

Spec == Init /\ [][Next]_vars

\* A call that has begun runs on: the engine is single-threaded and blocking,
\* and nothing suspends a march.
FairSpec == Init /\ [][Next]_vars /\ WF_vars(March)

\* The same program, with zero momenta among the inputs.
SpecDegenerate == InitWith(TRUE) /\ [][Next]_vars

\* ------------------------------------------- marches run side by side
\* Two calls of ComputeMaxPathLength(xyz, direction, pdgc) made against the
\* same analyzer, their loop iterations interleaved.  Each has its own
\* locals (lines 753-766); fGeometry, with its current direction and
\* current point, is the analyzer's.
Threads == { 1, 2 }

\* The locals of a call at its entry, lines 753-766.
NewTrial(pt, own) ==
    [xyz |-> pt, direction |-> own, xx |-> pt, FlagNotInYet |-> 0,
     condition |-> TRUE, Length |-> 0, counterloop |-> 0, at |-> "entry"]

\* The marches run side by side are those of the blocks of the left and the
\* right face: rays of either direction along the line.
TrialFaces == { f \in DOMAIN Faces : Faces[f] \in { "left", "right" } }

\* The points and directions SetVtxMaterial draws on those faces.
TrialInputs(g) ==
    UNION { { NewTrial(pt, own) : pt \in FacePoints(g, f),
                                  own \in FaceDirections(f) } :
            f \in TrialFaces }

\* An analyzer constructed on a geometry, with two marches for a registered
\* target about to be run.
InitInterleaved ==
    /\ geom \in { g \in 1 .. NGeom : WorldFound(g) }
    /\ fCurrPDGCodeList = ListOfTargetNuclei(geom)
    /\ fCurrPathLengthList = NewPathLengthList(fCurrPDGCodeList)
    /\ fCurrVertex = 0
    /\ tgtpdg \in { t \in Targets : ExistsInPDGCodeList(fCurrPDGCodeList, t) }
    /\ fMaterial = tgtpdg
    /\ curDirection = 1
    /\ curPoint = 0
    /\ pc = "trials"
    /\ op = "SetVtxMaterial" /\ x = 0 /\ p = 1
    /\ xx = 0 /\ FlagNotInYet = 0 /\ condition = TRUE /\ step = 0 /\ tick = 0
    /\ dist = 0 /\ rnd = 0 /\ distToVtx = 0
    /\ face = 0 /\ igen = 0 /\ Rgen = 0 /\ MaxPath = 0 /\ Length = 0
    /\ counterloop = 0 /\ xyz = 0 /\ direction = 1 /\ ntrials = 0
    /\ xyzN = 0 /\ directionN = 0
    /\ outcome = "none"
    /\ retval = 0
    /\ zeroP = FALSE
    /\ trials \in [Threads -> TrialInputs(geom)]
    /\ NoDriver
    /\ NoPauli
    /\ metNull = FALSE
    /\ enteredTgt = FALSE
    /\ missObs = {}

\* fGeometry->SetCurrentDirection(direction), line 767.
TrialEnter(t) ==
    /\ pc = "trials" /\ trials[t].at = "entry"
    /\ curDirection' = SetCurrentDirection(trials[t].direction)
    /\ trials' = [trials EXCEPT ![t].at = "loop"]
    /\ UNCHANGED << analyzer, curPoint, pc, call, marchLoc, vtxLoc, estLoc,
                    outcome, retval, zeroP, driver, pauli, metNull, enteredTgt,
                    missObs >>

\* The locals of the march tr after an iteration that gave r.
TrialAfter(tr, r) ==
    IF r.exit
    THEN [tr EXCEPT !.Length = r.Length, !.counterloop = @ + 1,
                    !.at = "returned"]
    ELSE [tr EXCEPT !.Length = r.Length, !.counterloop = @ + 1,
                    !.xx = r.xx, !.FlagNotInYet = r.flag,
                    !.condition = r.condition]

\* One iteration of the loop of a march, lines 769-841, or its return.
TrialStep(t) ==
    /\ pc = "trials" /\ trials[t].at = "loop"
    /\ IF WithinCap(trials[t].counterloop)
       THEN /\ curPoint' = SetCurrentPoint(trials[t].xx)
            /\ \E node \in FindNode(geom, curPoint', curDirection) :
                 trials' = [trials EXCEPT ![t] =
                     TrialAfter(@, CMPLIteration(geom, @.Length, @.xx,
                                                 @.FlagNotInYet, curPoint',
                                                 curDirection, @.direction,
                                                 tgtpdg, node))]
       ELSE /\ trials' = [trials EXCEPT ![t].at = "returned"]
            /\ UNCHANGED curPoint
    /\ UNCHANGED << analyzer, curDirection, pc, call, marchLoc, vtxLoc, estLoc,
                    outcome, retval, zeroP, driver, pauli, metNull, enteredTgt,
                    missObs >>

NextInterleaved == \E t \in Threads : TrialEnter(t) \/ TrialStep(t)

SpecInterleaved == InitInterleaved /\ [][NextInterleaved]_vars

\* ------------------------------------------------------------ gNuMIevgen
\* The command line, by what the driver reads from it.  -g names an
\* accessible ROOT file (with a top volume or without one), a target mix, a
\* mix in which a bracket is missing, or is absent; -f names a flux ntuple
\* and a detector location, a file and histograms, something that is
\* neither, or is absent; -n and -e are absent or carry a number.
GeomOptions == { "absent", "rootfile", "topless", "mix", "badmix" }
FluxOptions == { "absent", "ntuple", "hist", "bad" }
OptionValues == { << >> } \cup { << v >> : v \in -1 .. MaxCount }
\* -r is absent or carries a run number.
RunNumbers == { << >>, << 1001 >> }
CommandLines ==
    [h : BOOLEAN, r : RunNumbers, g : GeomOptions, f : FluxOptions,
     n : OptionValues, e : OptionValues]

\* No analyzer has been constructed.
NoAnalyzer ==
    /\ geom = 0
    /\ fCurrPDGCodeList = << >>
    /\ fCurrPathLengthList = NewPathLengthList(<< >>)
    /\ fCurrVertex = 0
    /\ fMaterial = 0
    /\ curDirection = 1
    /\ curPoint = 0
    /\ pc = "none"
    /\ op = "none" /\ x = 0 /\ p = 1 /\ tgtpdg = 0
    /\ xx = 0 /\ FlagNotInYet = 0 /\ condition = TRUE /\ step = 0 /\ tick = 0
    /\ dist = 0 /\ rnd = 0 /\ distToVtx = 0
    /\ face = 0 /\ igen = 0 /\ Rgen = 0 /\ MaxPath = 0 /\ Length = 0
    /\ counterloop = 0 /\ xyz = 0 /\ direction = 1 /\ ntrials = 0
    /\ xyzN = 0 /\ directionN = 0
    /\ outcome = "none"
    /\ retval = 0
    /\ zeroP = FALSE
    /\ trials = << >>
    /\ metNull = FALSE
    /\ enteredTgt = FALSE
    /\ missObs = {}

\* The program is started on a command line; the globals have the values of
\* their definitions, lines 245-259.
InitDriver ==
    /\ NoAnalyzer
    /\ argv \in CommandLines
    /\ gOptRunNu = 0
    /\ gOptUsingRootGeom = FALSE /\ gOptUsingHistFlux = FALSE
    /\ gOptNev = 0 /\ gOptPOT = 0
    /\ dpc = "start" /\ status = -1 /\ ievent = 0 /\ fpot = 0
    /\ psc = PscDen /\ ntpwRunNu = 0 /\ mcjmonitorRunNu = 0
    /\ records = << >>
    /\ NoPauli

\* CmdLineArgAsInt(argc,argv,'r') and the catch block that follows, lines
\* 527-535: the number given, or 0 when the option is not found.
RunNuOrDefault(arg) == IF arg = << >> THEN 0 ELSE arg[1]

\* CmdLineArgAsInt / CmdLineArgAsDouble and the catch block that follows:
\* the number given, or -1 when the option is not found (lines 772-793).
ArgOrDefault(arg) == IF arg = << >> THEN -1 ELSE arg[1]

\* Lines 816-818: how many of -e and -n are positive.
NSet(pot, nev) ==
    (IF pot > 0 THEN 1 ELSE 0) + (IF nev > 0 THEN 1 ELSE 0)

\* A check of the exposure that lacks if(nset>1).
AtLeastOneSet(nset) == nset # 0

\* Lines 819-831: neither nset==0 nor nset>1.
OneSet(nset) == ~(nset = 0) /\ ~(nset > 1)

\* The sanity checks of lines 815-852: whether none of them exits.
SanityChecks(hist, root, nev, pot) ==
    /\ ~hist => OneSet(NSet(pot, nev))
    /\ hist => ~(nev < 0)
    /\ ~root => ~(pot > 0)

\* exit(n)
Exit(n) ==
    /\ dpc' = "exited" /\ status' = n
    /\ UNCHANGED << ievent, fpot, records >>

\* GetCommandLineArgs(argc, argv), lines 510-853: -h, the geometry, the
\* flux, -n, -e, and the sanity checks, each of which may exit.
GetCommandLineArgs ==
    /\ dpc = "start"
    /\ IF argv.h
       THEN /\ Exit(0)
            /\ UNCHANGED << gOptRunNu, gOptUsingRootGeom, gOptUsingHistFlux,
                            gOptNev, gOptPOT >>
       ELSE /\ gOptRunNu' = RunNuOrDefault(argv.r)
            /\ IF argv.g \in { "absent", "badmix" }
               THEN /\ Exit(1)
                    /\ UNCHANGED << gOptUsingRootGeom, gOptUsingHistFlux,
                                    gOptNev, gOptPOT >>
               ELSE /\ gOptUsingRootGeom' = (argv.g \in { "rootfile", "topless" })
                    /\ IF argv.f = "absent"
                       THEN /\ Exit(1)
                            /\ UNCHANGED << gOptUsingHistFlux, gOptNev,
                                            gOptPOT >>
                       ELSE /\ gOptUsingHistFlux' = (argv.f = "hist")
                            /\ IF argv.f = "bad"
                               THEN /\ Exit(1)
                                    /\ UNCHANGED << gOptNev, gOptPOT >>
                               ELSE /\ gOptNev' = ArgOrDefault(argv.n)
                                    /\ gOptPOT' = ArgOrDefault(argv.e)
                                    /\ IF SanityChecks(gOptUsingHistFlux',
                                                       gOptUsingRootGeom',
                                                       gOptNev', gOptPOT')
                                       THEN /\ dpc' = "configured"
                                            /\ UNCHANGED << status, ievent,
                                                            fpot, records >>
                                       ELSE Exit(1)
    /\ UNCHANGED << analyzer, backend, pc, call, marchLoc, vtxLoc, estLoc,
                    outcome, retval, zeroP, trials, metNull, enteredTgt,
                    missObs, pauli, argv, job >>

\* main, lines 262-391: the geometry driver, the flux driver (the NuMI flux
\* driver for an ntuple, the histogram flux driver otherwise), the event
\* generation driver and the ntuple writer.
MainSetUp ==
    /\ dpc = "configured"
    /\ IF gOptUsingRootGeom /\ argv.g = "topless"
       THEN Exit(1) /\ UNCHANGED job
       ELSE /\ dpc' = "loop" /\ ievent' = 0 /\ fpot' = 0
            /\ psc' \in 1 .. PscDen
            /\ ntpwRunNu' = gOptRunNu /\ mcjmonitorRunNu' = gOptRunNu
            /\ UNCHANGED << status, records >>
    /\ UNCHANGED << analyzer, backend, pc, call, marchLoc, vtxLoc, estLoc,
                    outcome, retval, zeroP, trials, metNull, enteredTgt,
                    missObs, pauli, argv, gOptRunNu, gOptUsingRootGeom,
                    gOptUsingHistFlux, gOptNev, gOptPOT >>

\* break, and the return of main.
Finished ==
    /\ dpc' = "finished" /\ status' = 0
    /\ UNCHANGED << ievent, fpot, records >>

\* A call through the null numi_flux_driver ends the program, or reads
\* whatever lies there and the loop goes either way.
Crashed ==
    /\ dpc' = "crashed" /\ status' = 139
    /\ UNCHANGED << ievent, fpot, records >>

\* ntpw.AddEventRecord(ievent, event) ... ievent++, lines 450-454.
AddEventRecord ==
    /\ records' = Append(records, ievent)
    /\ ievent' = ievent + 1

\* mcj_driver->GenerateEvent() and the rest of the iteration, lines 417-455.
\* An ntuple yields an event or none for each entry it has and none after
\* the last, when End() holds; histograms yield an event or none, and
\* numi_flux_driver->End() is then called through a null pointer.
GenerateEvent ==
    IF ~gOptUsingHistFlux
    THEN IF fpot = FluxEntries
         THEN Finished
         ELSE /\ fpot' = fpot + 1
              /\ \/ AddEventRecord /\ UNCHANGED << dpc, status >>
                 \/ /\ UNCHANGED << ievent, records >>
                    /\ IF fpot' = FluxEntries
                       THEN dpc' = "finished" /\ status' = 0
                       ELSE UNCHANGED << dpc, status >>
    ELSE \/ AddEventRecord /\ UNCHANGED << dpc, status, fpot >>
         \/ Crashed
         \/ Finished
         \/ UNCHANGED << dpc, status, ievent, fpot, records >>

\* A test of the exposure that lets the sample reach the POT asked for.
PotExceeded(pot, scale, asked) == pot * PscDen > asked * scale

\* pot = fpot / psc; if(pot >= gOptPOT), lines 410-413.
PotReached(pot, scale, asked) == pot * PscDen >= asked * scale

\* A test of the count that lets it pass the number asked for.
CountPassed(iev, nev) == iev > nev

\* if(ievent == gOptNev) break, line 405.
CountReached(iev, nev) == iev = nev

\* One iteration of while(1), lines 398-455.
EventLoop ==
    /\ dpc = "loop"
    /\ IF CountReached(ievent, gOptNev)
       THEN Finished
       ELSE IF gOptPOT > 0 /\ gOptUsingHistFlux
       THEN Crashed \/ Finished \/ GenerateEvent
       ELSE IF gOptPOT > 0 /\ PotReached(fpot, psc, gOptPOT)
       THEN Finished
       ELSE GenerateEvent
    /\ UNCHANGED << analyzer, backend, pc, call, marchLoc, vtxLoc, estLoc,
                    outcome, retval, zeroP, trials, metNull, enteredTgt,
                    missObs, pauli, argv, gOptRunNu, gOptUsingRootGeom,
                    gOptUsingHistFlux, gOptNev, gOptPOT, job >>

NextDriver == GetCommandLineArgs \/ MainSetUp \/ EventLoop

SpecDriver == InitDriver /\ [][NextDriver]_vars

\* ----------------------------------------------------------- PauliBlocker
\* The nucleons a record may hold: proton and neutron.
NucleonCodes == { 2212, 2112 }
\* GHepStatus_t: the initial state and kIStStableFinalState.
Statuses == { 0, 1 }
Particles == [pdg : NucleonCodes, ist : Statuses, P : 0 .. MaxMomentum]
ParticleLists == UNION { [1 .. n -> Particles] : n \in 0 .. MaxParticles }
\* init_state.GetTarget(): two nuclei and a free proton.
EventTargets ==
    { [IsNucleus |-> TRUE, PDGCode |-> IonPdgCode(16, 8)],
      [IsNucleus |-> TRUE, PDGCode |-> IonPdgCode(56, 26)],
      [IsNucleus |-> FALSE, PDGCode |-> 2212] }
\* The event records given to the module: the target of the interaction,
\* the code RecoilNucleonPdgCode(interaction) gives (0 for none), the
\* particles, the event flags set so far and the Pauli-blocked switch.
GHepRecords ==
    [target : EventTargets, recoil : { 0 } \cup NucleonCodes,
     particles : ParticleLists, flags : { {}, { "kGenericErr" } },
     IsPauliBlocked : BOOLEAN]

\* A PauliBlocker has been constructed and is given an event record; the
\* constructors (lines 33-45, 129-139) set no table.
InitPauli ==
    /\ NoAnalyzer
    /\ NoDriver
    /\ event_rec \in GHepRecords
    /\ fKFTable = "unset" /\ ppc = "constructed" /\ called = "none"
    /\ exception = NoException

\* GHepRecord::FindParticle(pdg, status, start): the position of the first
\* particle at or after start with the code and the status, 0 (null) when
\* there is none.  Positions count from 1 here, from 0 in the source.
Matching(particles, pdg, ist, start) ==
    { i \in DOMAIN particles :
        i > start /\ particles[i].pdg = pdg /\ particles[i].ist = ist }
FirstOf(found) ==
    IF found = {} THEN 0 ELSE CHOOSE i \in found : \A j \in found : i <= j
FindParticle(particles, pdg, ist, start) ==
    FirstOf(Matching(particles, pdg, ist, start))

\* FermiMomentumTable::FindClosestKF(tgt_pdgc, nuc_pdgc), in the unit of
\* the momenta of the particles.
FindClosestKF(tgt_pdgc, nuc_pdgc) ==
    IF tgt_pdgc = IonPdgCode(56, 26) /\ nuc_pdgc = 2212 THEN 2 ELSE 1

\* event_rec->SwitchIsPauliBlocked(on)
SwitchIsPauliBlocked(rec, on) == [rec EXCEPT !.IsPauliBlocked = on]

\* event_rec->EventFlags()->SetBitNumber(bit, true)
SetBitNumber(rec, bit) == [rec EXCEPT !.flags = @ \cup { bit }]

\* Configure -> LoadKFTable, lines 189-210: the table named "Default".
Configure ==
    /\ ppc = "constructed"
    /\ fKFTable' = "Default" /\ ppc' = "configured"
    /\ UNCHANGED << analyzer, backend, pc, call, marchLoc, vtxLoc, estLoc,
                    outcome, retval, ghost, event_rec, called, exception >>

\* A test that blocks an event at the Fermi momentum too.
PauliBlockedAtKF(pmag, kf) == pmag <= kf

\* if(p < kf), line 173.
PauliBlocked(pmag, kf) == pmag < kf

\* The tests of lines 154-173 on the nucleon found at position nuc.
BlockedAt(rec, nuc) ==
    /\ nuc # 0
    /\ PauliBlocked(rec.particles[nuc].P,
                    FindClosestKF(rec.target.PDGCode, rec.recoil))
ToBlock(rec) ==
    /\ rec.target.IsNucleus
    /\ rec.recoil # 0
    /\ BlockedAt(rec, FindParticle(rec.particles, rec.recoil, 1, 0))

\* ProcessEventRecord(event_rec), lines 146-187, of a configured module: a
\* blocked event gets the flag kPauliBlock and the exception is thrown with
\* fast-forward on.
ProcessEventRecord ==
    /\ ppc = "configured"
    /\ called' = "current"
    /\ IF ToBlock(event_rec)
       THEN /\ event_rec' = SetBitNumber(event_rec, "kPauliBlock")
            /\ exception' = [thrown |-> TRUE,
                             reason |-> "Pauli-blocked event",
                             fastForward |-> TRUE]
            /\ ppc' = "thrown"
       ELSE /\ ppc' = "returned"
            /\ UNCHANGED << event_rec, exception >>
    /\ UNCHANGED << analyzer, backend, pc, call, marchLoc, vtxLoc, estLoc,
                    outcome, retval, ghost, fKFTable >>

\* The tests of lines 64-82 on the nucleon found at position nuc.
BlockedAtEarlier(rec, nuc) ==
    /\ nuc # 0
    /\ rec.particles[nuc].P < FindClosestKF(rec.target.PDGCode, rec.recoil)
ToBlockEarlier(rec) ==
    /\ rec.target.IsNucleus
    /\ rec.recoil # 0
    /\ BlockedAtEarlier(rec, FindParticle(rec.particles, rec.recoil, 1, 0))

\* ProcessEventRecord(event_rec), lines 52-92, the earlier version: the
\* switch is set by SwitchIsPauliBlocked(true) at line 56, and again at line
\* 86 for a blocked event; the table is taken from the pool.
ProcessEventRecordEarlier ==
    /\ ppc = "constructed"
    /\ called' = "earlier"
    /\ event_rec' =
          IF ToBlockEarlier(event_rec)
          THEN SwitchIsPauliBlocked(SwitchIsPauliBlocked(event_rec, TRUE),
                                    TRUE)
          ELSE SwitchIsPauliBlocked(event_rec, TRUE)
    /\ ppc' = "returned"
    /\ UNCHANGED << analyzer, backend, pc, call, marchLoc, vtxLoc, estLoc,
                    outcome, retval, ghost, fKFTable, exception >>

NextPauli == Configure \/ ProcessEventRecord \/ ProcessEventRecordEarlier

SpecPauli == InitPauli /\ [][NextPauli]_vars

\* ------------------------------------------------------------- properties
Returned(o) == pc = "idle" /\ op = o /\ outcome = "returned"

\* Every volume of the geometry has a medium and a material.
WellFormed(g) ==
    \A i \in DOMAIN Geometries[g].vols :
        Geometries[g].vols[i].med /\ Geometries[g].vols[i].mat

\* The ray of the call lies outside the top volume and points away from it:
\* every point along it resolves as outside.
RayMisses ==
    /\ geom # 0
    /\ \/ p > 0 /\ x >= BoxHi(geom)
       \/ p < 0 /\ x <= BoxLo(geom)

\* The ray of the call starts outside the top volume and points into it.
RayCrosses ==
    /\ geom # 0
    /\ \/ p > 0 /\ x < BoxLo(geom)
       \/ p < 0 /\ x > BoxHi(geom)

\* No volume of the geometry gives the target code a positive density.
TargetNowhere ==
    /\ geom # 0
    /\ \A i \in DOMAIN Geometries[geom].vols :
         \/ OwnCode(Geometries[geom].vols[i].material) # tgtpdg
         \/ Geometries[geom].vols[i].material.density = 0

RECURSIVE SumOver(_, _)
SumOver(f, S) ==
    IF S = {} THEN 0
    ELSE LET c == CHOOSE c \in S : TRUE IN f[c] + SumOver(f, S \ { c })

\* The direction of a ray, from its momentum alone.
RayDirection(mom) == IF mom > 0 THEN 1 ELSE -1

\* The list a march gives that starts from the given list, cursor and
\* direction and owes nothing to any earlier call; << >> if it has not ended
\* after fuel iterations.
RECURSIVE MarchFrom(_, _, _, _, _, _, _)
MarchOn(g, r, d, mom, fuel) ==
    IF r.exit THEN r.list
    ELSE MarchFrom(g, r.list, r.xx, r.flag, d, mom, fuel - 1)
MarchFrom(g, list, cur, flag, d, mom, fuel) ==
    IF fuel = 0 THEN << >>
    ELSE MarchOn(g, CPLIteration(g, list, cur, flag, cur, d, mom,
                                 CHOOSE n \in FindNode(g, cur, d) : TRUE),
                 d, mom, fuel)

FreshPathLengths(g, x0, p0) ==
    MarchFrom(g, NewPathLengthList(ListOfTargetNuclei(g)), x0, 0,
              RayDirection(p0), p0, 2 * Far + 2)

\* C1: a call of ComputePathLengths that returns gives the list that its
\* geometry, origin and momentum alone determine, whatever calls of
\* ComputePathLengths, GenerateVertex and SetVtxMaterial ran before it; so
\* any two calls on the same ray return identical lists.
C1_HistoryIndependent ==
    Returned("ComputePathLengths") =>
        fCurrPathLengthList = FreshPathLengths(geom, x, p)

\* A call of ComputePathLengths has returned a positive length on an
\* analyzer that has already sampled a nonzero vertex and set a material.
C1_Witness ==
    /\ Returned("ComputePathLengths")
    /\ fCurrVertex # 0 /\ fMaterial > 0
    /\ \E c \in DOMAIN fCurrPathLengthList : fCurrPathLengthList[c] > 0

\* The geometry is one volume of a pure material.
SinglePure(g) ==
    /\ g # 0
    /\ Len(Geometries[g].vols) = 1
    /\ WellFormed(g)
    /\ ~Geometries[g].vols[1].material.mix

\* C2: in a geometry of a single pure volume, ComputePathLengths on a ray
\* that starts outside and crosses the volume returns the chord length, exit
\* minus entry, for the volume's isotope and zero for every other entry.
C2_ChordLength ==
    (Returned("ComputePathLengths") /\ SinglePure(geom) /\ RayCrosses) =>
        \A c \in DOMAIN fCurrPathLengthList :
            fCurrPathLengthList[c] =
                IF c = OwnCode(Geometries[geom].vols[1].material)
                THEN BoxHi(geom) - BoxLo(geom) ELSE 0

\* The oxygen cube has been crossed by a ray of momentum 2 from outside and
\* the call has returned its width.
C2_Witness ==
    /\ Returned("ComputePathLengths") /\ SinglePure(geom) /\ RayCrosses
    /\ p = 2 /\ x < BoxLo(geom)
    /\ fCurrPathLengthList[IonPdgCode(16, 8)] = BoxHi(geom) - BoxLo(geom)

\* C3: ComputePathLengths on a ray that never intersects the geometry
\* terminates and returns a list of zeros.
C3_MissTerminatesAllZero ==
    (pc = "cpl" /\ RayMisses) ~>
        (/\ Returned("ComputePathLengths")
         /\ \A c \in DOMAIN fCurrPathLengthList : fCurrPathLengthList[c] = 0)

\* C4: GenerateVertex on a ray that never intersects the geometry, or for a
\* target no volume holds with a positive density, terminates and returns
\* the zero point.
C4_NotFoundReturnsZero ==
    (pc = "gv" /\ WellFormed(geom) /\ (RayMisses \/ TargetNowhere)) ~>
        (Returned("GenerateVertex") /\ fCurrVertex = 0)

\* The point lies in the closure of a region whose material has the code.
InTarget(g, v, tgt) ==
    \E c \in { v, v - 1 } :
        /\ RegionAtCell(g, c) # 0
        /\ OwnCode(CurrentVolume(g, RegionAtCell(g, c)).material) = tgt

\* C5: whenever GenerateVertex found a positive weighted length of the
\* target, the vertex it returns lies within a volume of the target isotope.
C5_VertexInTarget ==
    (Returned("GenerateVertex") /\ ~metNull /\ dist > 0) =>
        InTarget(geom, fCurrVertex, tgtpdg)

\* C6: a call of GenerateVertex that found the target never returns what a
\* call that did not find it returns, the zero point.
C6_FoundDistinguishable ==
    (Returned("GenerateVertex") /\ ~metNull /\ dist > 0) => fCurrVertex # 0

\* C7: a call of GenerateVertex that entered the target and summed a zero
\* weighted length never returns what a call that never entered it returns.
C7_OutcomesDistinct ==
    (Returned("GenerateVertex") /\ ~metNull /\ enteredTgt /\ dist = 0) =>
        fCurrVertex \notin missObs

\* The march of ComputePathLengths is about to resolve a mixture.
InMixture ==
    /\ pc = "cpl"
    /\ LET n == CHOOSE n \in FindNode(geom, xx, curDirection) : TRUE
       IN  /\ ~IsOutside(n)
           /\ CurrentVolume(geom, n).med /\ CurrentVolume(geom, n).mat
           /\ CurrentVolume(geom, n).material.mix

\* C8: in a mixture of N elements whose segment to the next boundary has
\* length s, the iteration adds the same s to the entry of each of the N
\* constituent isotopes and nothing to any other entry.
C8_SameStepEachElement ==
    [][InMixture =>
         LET n     == CHOOSE n \in FindNode(geom, xx, curDirection) : TRUE
             codes == MaterialCodes(CurrentVolume(geom, n).material)
             s     == StepToNextBoundary(geom, xx, curDirection)
         IN  \A c \in DOMAIN fCurrPathLengthList :
                 fCurrPathLengthList'[c] =
                     fCurrPathLengthList[c]
                       + s * Cardinality({ i \in DOMAIN codes : codes[i] = c })
      ]_vars

\* A ray has crossed a mixture and the entries returned sum to more than the
\* width of the whole detector.
C8_Witness ==
    /\ Returned("ComputePathLengths")
    /\ \E i \in DOMAIN Geometries[geom].vols : Geometries[geom].vols[i].material.mix
    /\ \E c \in DOMAIN fCurrPathLengthList :
         c = IonPdgCode(1, 1) /\ fCurrPathLengthList[c] > 0
    /\ SumOver(fCurrPathLengthList, DOMAIN fCurrPathLengthList)
         > BoxHi(geom) - BoxLo(geom)

\* C9: a call of ComputePathLengths or GenerateVertex whose march resolved a
\* volume without medium or material does not return as a normal call does.
C9_NullVolumeIsFatal ==
    (/\ pc = "idle"
     /\ op \in { "ComputePathLengths", "GenerateVertex" }
     /\ metNull) => outcome # "returned"

\* C10: no march runs on a momentum of zero length.
C10_ZeroMomentumRejected ==
    p = 0 => pc \notin { "cpl", "gv", "vtx" }

\* The codes the march of ComputePathLengths passes to AddPathLength when it
\* resolves the node n: those of the volume's material, lines 429-482.
CodesPassed(g, n) ==
    IF IsOutside(n) \/ ~(CurrentVolume(g, n).med /\ CurrentVolume(g, n).mat)
    THEN << >>
    ELSE MaterialCodes(CurrentVolume(g, n).material)

\* C11: every isotope code the march of ComputePathLengths passes to
\* AddPathLength is held by the list of target nuclei that
\* BuildListOfTargetNuclei registered, for pure materials and for every
\* element of a mixture.
C11_CodesRegistered ==
    (pc = "cpl" /\ geom # 0) =>
        \A n \in FindNode(geom, xx, curDirection) :
            \A i \in DOMAIN CodesPassed(geom, n) :
                ExistsInPDGCodeList(fCurrPDGCodeList, CodesPassed(geom, n)[i])

\* The march is about to pass the two element codes of the water of the
\* tank, hydrogen among them, and both are registered.
C11_Witness ==
    /\ InMixture
    /\ Len(CodesPassed(geom, CHOOSE n \in FindNode(geom, xx, curDirection) : TRUE)) = 2
    /\ ExistsInPDGCodeList(fCurrPDGCodeList, IonPdgCode(1, 1))

\* C12: the list of target nuclei built during Initialize is left as it is
\* by every later operation, ComputePathLengths, GenerateVertex,
\* SetVtxMaterial and ListOfTargetNuclei and every step of their loops:
\* nothing is added, removed or reordered.
C12_RegisteredSetFrozen ==
    [][fCurrPDGCodeList' = fCurrPDGCodeList]_vars

\* The accessor has returned on an analyzer that has computed path lengths,
\* sampled a nonzero vertex and set a material, and the list still is the
\* one the construction built, of two codes or more.
C12_Witness ==
    /\ Returned("ListOfTargetNuclei")
    /\ fCurrVertex # 0 /\ fMaterial > 0
    /\ \E c \in DOMAIN fCurrPathLengthList : fCurrPathLengthList[c] > 0
    /\ Len(fCurrPDGCodeList) >= 2
    /\ fCurrPDGCodeList = ListOfTargetNuclei(geom)

InTrials(l) == l \in { "point", "ray", "cmpl" }

\* C14: while SetVtxMaterial processes its trials the running maximum
\* MaxPath never decreases.
C14_RunningMaxMonotone ==
    [][(InTrials(pc) /\ InTrials(pc')) => MaxPath' >= MaxPath]_vars

\* A march has just returned a length below the running maximum, and the
\* maximum stands.
C14_Witness ==
    /\ pc = "ray" /\ Rgen > 0
    /\ MaxPath > 0 /\ Length < MaxPath

\* What an iteration of the bounded march adds to a density-weighted length
\* when it resolves the node n: the step to the next boundary times the
\* density of the material, in a volume of the target code.
WeightedLengthStep(g, n, pt, d, tgt) ==
    IF IsOutside(n) \/ ~(CurrentVolume(g, n).med /\ CurrentVolume(g, n).mat)
    THEN 0
    ELSE IF OwnCode(CurrentVolume(g, n).material) # tgt THEN 0
    ELSE StepToNextBoundary(g, pt, d) * CurrentVolume(g, n).material.density

\* C15: the length a march of ComputeMaxPathLength accumulates is weighted
\* with the density: every segment in the target adds its length times the
\* density of its material, so that estimates scale with the density.
C15_DensityWeighted ==
    [][(pc = "cmpl" /\ counterloop' = counterloop + 1) =>
          \E n \in FindNode(geom, xx, curDirection) :
              Length' = Length + WeightedLengthStep(geom, n, xx, curDirection,
                                                    tgtpdg)
      ]_vars

C18_EntriesNonNegative ==
    /\ \A c \in DOMAIN fCurrPathLengthList :
          fCurrPathLengthList[c] # NaN /\ fCurrPathLengthList[c] >= 0
    /\ SumOver(fCurrPathLengthList, DOMAIN fCurrPathLengthList) >= 0

\* A call of ComputePathLengths on a ray of negative momentum has returned
\* a positive length, after an earlier call had returned.
C18_Witness ==
    /\ Returned("ComputePathLengths") /\ p < 0
    /\ fCurrVertex # 0
    /\ \E c \in DOMAIN fCurrPathLengthList : fCurrPathLengthList[c] > 0

\* The length a march returns when no other march runs beside it: the
\* backend's direction is its own and the backend's point is its cursor.
RECURSIVE SoloFrom(_, _, _, _, _, _, _)
SoloOn(g, r, own, tgt, n) ==
    IF r.exit THEN r.Length
    ELSE SoloFrom(g, r.Length, r.xx, r.flag, own, tgt, n + 1)
SoloFrom(g, len, cur, flag, own, tgt, n) ==
    IF ~WithinCap(n) THEN len
    ELSE SoloOn(g, CMPLIteration(g, len, cur, flag, cur, own, own, tgt,
                                 CHOOSE node \in FindNode(g, cur, own) : TRUE),
                own, tgt, n)

SoloLength(g, pt, own, tgt) == SoloFrom(g, 0, pt, 0, own, tgt, 0)

\* C17: two marches of ComputeMaxPathLength whose iterations are interleaved
\* against the same analyzer each return the length they return when run
\* one after the other: the marches share no state.
C17_InterleavingHarmless ==
    \A t \in DOMAIN trials :
        trials[t].at = "returned" =>
            trials[t].Length = SoloLength(geom, trials[t].xyz,
                                          trials[t].direction, tgtpdg)

\* The option is given and its number is positive.
GivenPositive(arg) == arg # << >> /\ ArgOrDefault(arg) > 0

\* GetCommandLineArgs has returned.
Accepted == dpc \in { "configured", "loop", "finished", "crashed" }

\* C19: on a command line that names a flux ntuple (and does not ask for
\* the syntax with -h), GetCommandLineArgs returns only if exactly one of
\* -e and -n is given a positive value; with neither or both the program
\* has exited with status 1 and has generated no event.
C19_NtupleNeedsOneExposure ==
    (dpc # "start" /\ argv.f = "ntuple" /\ ~argv.h) =>
        /\ Accepted => (GivenPositive(argv.e) # GivenPositive(argv.n))
        /\ (GivenPositive(argv.e) = GivenPositive(argv.n)) =>
               (dpc = "exited" /\ status = 1 /\ ievent = 0)

\* A run on a flux ntuple and a ROOT geometry with -e alone has generated
\* events and has finished; so has one with -n alone.
C19_Witness ==
    /\ argv.f = "ntuple" /\ argv.g = "rootfile" /\ ~argv.h
    /\ GivenPositive(argv.e) /\ ~GivenPositive(argv.n)
    /\ dpc = "finished" /\ ievent > 0

\* C20: a command line that names flux histograms and gives -e a positive
\* value never enters the event generation loop, whatever -g names.
C20_HistFluxRefusesPOT ==
    (argv.f = "hist" /\ GivenPositive(argv.e)) =>
        dpc \notin { "loop", "finished", "crashed" }

\* The indices 0 .. n-1, in increasing order.
IndicesBelow(n) == [i \in 1 .. n |-> i - 1]

\* C21: with -n N, N > 0, the records added to the output are at every
\* moment those of indices 0 .. ievent-1 in increasing order, each once, and
\* never more than N; an iteration adds a record exactly when it advances
\* the event counter, by one, so an iteration that got no event adds none
\* and leaves the counter; and the iteration that begins with N events
\* generated leaves the loop, with exactly the N records 0 .. N-1 written.
C21_CountStopsLoop ==
    /\ [](gOptNev > 0 =>
            /\ records = IndicesBelow(ievent)
            /\ Len(records) <= gOptNev)
    /\ [][(dpc = "loop" /\ gOptNev > 0) =>
            /\ \/ records' = records /\ ievent' = ievent
               \/ records' = Append(records, ievent) /\ ievent' = ievent + 1
            /\ ievent = gOptNev =>
                  /\ dpc' = "finished"
                  /\ records' = IndicesBelow(gOptNev)
         ]_vars

\* A run with -n 2 on a flux ntuple has read three entries, got no event
\* from one of them, and has left the loop with the records 0 and 1.
C21_Witness ==
    /\ dpc = "finished" /\ ~gOptUsingHistFlux
    /\ gOptNev = 2 /\ ievent = 2 /\ fpot = 3
    /\ records = << 0, 1 >>

\* C22: with -e E on a flux ntuple, an iteration of the event loop that
\* begins with the POT of the flux file over the global probability scale
\* at E or more generates no event, reads no flux entry and leaves the loop.
C22_ExposureStopsLoop ==
    [][(/\ dpc = "loop" /\ gOptPOT > 0 /\ ~gOptUsingHistFlux
        /\ fpot * PscDen >= gOptPOT * psc) =>
           /\ dpc' = "finished"
           /\ ievent' = ievent /\ records' = records /\ fpot' = fpot
      ]_vars

\* A run with -e 2 and a probability scale of one has generated events from
\* two of the three entries of the ntuple and has left the loop there.
C22_Witness ==
    /\ dpc = "finished" /\ ~gOptUsingHistFlux
    /\ gOptPOT = 2 /\ psc = PscDen /\ gOptNev = -1
    /\ fpot = 2 /\ fpot < FluxEntries /\ ievent = 2

\* C23: a job started without -r gives the ntuple writer and the job
\* monitor the documented default run number, 1000.
C23_DefaultRunNumber ==
    (dpc \in { "loop", "finished", "crashed" } /\ argv.r = << >>) =>
        (ntpwRunNu = DefaultRunNu /\ mcjmonitorRunNu = DefaultRunNu)

\* The unbounded march of the call in progress is about to resolve a point
\* outside every volume.
OutsideAhead ==
    /\ pc \in { "cpl", "gv" }
    /\ \A n \in FindNode(geom, xx, curDirection) : IsOutside(n)

\* The cursor moved by the step to the next boundary along the ray.
AtNextBoundary(g, cur, mom) ==
    Clamp(cur + RayDirection(mom)
                  * StepToNextBoundary(g, cur, RayDirection(mom)))

\* What an iteration of the unbounded march does on an outside point, and
\* to has-entered.
OutsideRule ==
    /\ (OutsideAhead /\ FlagNotInYet = 0) =>
          /\ pc' = pc /\ FlagNotInYet' = 0
          /\ fCurrPathLengthList' = fCurrPathLengthList
          /\ dist' = dist
          /\ xx' = AtNextBoundary(geom, xx, p)
    /\ (OutsideAhead /\ FlagNotInYet = 1) => (pc' # pc)
    /\ (pc' = pc /\ FlagNotInYet = 1) => (FlagNotInYet' = 1)
    /\ (pc' = pc /\ ~OutsideAhead) => (FlagNotInYet' = 1)

\* C24: in the unbounded march of ComputePathLengths and of the first pass
\* of GenerateVertex, an outside point met before the ray has entered any
\* volume does not end the march: the cursor goes to the next boundary,
\* nothing is added to any entry or to the weighted length, and has-entered
\* stays clear; an outside point met once has-entered is set ends the march;
\* and has-entered, once set, stays set while the march goes on.
C24_OutsideEndsOnceEntered ==
    [][(pc \in { "cpl", "gv" }) => OutsideRule]_vars

\* A march of ComputePathLengths that began outside the detector has met an
\* outside point, has gone on to the face of the detector with every entry
\* still zero, and has not entered yet.
C24_Witness ==
    /\ pc = "cpl" /\ tick = 1 /\ FlagNotInYet = 0
    /\ p > 0 /\ x < BoxLo(geom) /\ xx = BoxLo(geom)
    /\ \A c \in DOMAIN fCurrPathLengthList : fCurrPathLengthList[c] = 0

\* The march of ComputePathLengths is about to resolve a point inside a
\* volume that has a medium and a material.
InsideAhead ==
    /\ pc = "cpl"
    /\ \A n \in FindNode(geom, xx, curDirection) :
          /\ ~IsOutside(n)
          /\ CurrentVolume(geom, n).med /\ CurrentVolume(geom, n).mat

\* C25: for every segment the march of ComputePathLengths traverses, that
\* of a mixture of several elements included, the cursor advances along the
\* direction by the step of the segment, once: the next point resolved is
\* the boundary the segment ends on.
C25_CursorAdvancesOnce ==
    [][InsideAhead => xx' = AtNextBoundary(geom, xx, p)]_vars

\* The far end, along the direction d, of the region of the node n.
FarEnd(g, n, d) ==
    IF d = 1 THEN Geometries[g].regions[n].hi ELSE Geometries[g].regions[n].lo

\* The point b lies at the point a or beyond it along the direction d.
NotBefore(a, b, d) == (b - a) * d >= 0

\* An iteration that goes on leaves the cursor where it was or ahead, and
\* in a march from boundary to boundary at the far end of the region it
\* resolved or beyond it.
CursorRule ==
    /\ NotBefore(xx, xx', curDirection)
    /\ (pc # "vtx") =>
          \A n \in FindNode(geom, xx, curDirection) :
              ~IsOutside(n) =>
                  NotBefore(FarEnd(geom, n, curDirection), xx', curDirection)

\* C26: in every march (ComputePathLengths, both passes of GenerateVertex,
\* ComputeMaxPathLength) the cursor never moves back from one iteration to
\* the next; and an iteration of a march from boundary to boundary that
\* attributes the length of a region leaves the cursor at the far end of
\* that region or beyond it, so that no later iteration resolves the region
\* again and its length is attributed once.
C26_CursorMonotone ==
    [][(pc \in { "cpl", "gv", "vtx", "cmpl" } /\ pc' = pc) => CursorRule]_vars

\* The first pass of GenerateVertex has crossed two regions at least, one
\* of them of the target, on a ray of negative direction, and goes on.
C26_Witness ==
    /\ pc = "gv" /\ p < 0 /\ FlagNotInYet = 1
    /\ dist > 0 /\ xx < x - 1 /\ xx > BoxLo(geom)

\* Every volume of the geometry has a material, and none is a mixture.
AllPure(g) ==
    /\ g # 0 /\ WellFormed(g)
    /\ \A i \in DOMAIN Geometries[g].vols : ~Geometries[g].vols[i].material.mix

\* The cells of the line the ray from x0 along d passes through.
CellsOnRay(x0, d) ==
    { c \in -Far .. Far - 1 : NotBefore(CellAhead(x0, d), c, d) }

\* The cells of the ray that lie in regions whose material has the code.
CellsOfCode(g, x0, d, code) ==
    { c \in CellsOnRay(x0, d) :
        /\ RegionAtCell(g, c) # 0
        /\ OwnCode(CurrentVolume(g, RegionAtCell(g, c)).material) = code }

\* The cells of the ray that lie inside the geometry.
CellsInside(g, x0, d) ==
    { c \in CellsOnRay(x0, d) : RegionAtCell(g, c) # 0 }

\* C27: in a geometry of pure materials, ComputePathLengths on a ray that
\* passes through the geometry returns for each isotope the summed length
\* of the segments of the ray in regions of that isotope, disjoint regions
\* added up, and the entries sum to the length of the ray inside the
\* geometry.
C27_PureSegmentSums ==
    (/\ Returned("ComputePathLengths") /\ AllPure(geom)
     /\ CellsInside(geom, x, RayDirection(p)) # {}) =>
        /\ \A c \in DOMAIN fCurrPathLengthList :
               fCurrPathLengthList[c] =
                   Cardinality(CellsOfCode(geom, x, RayDirection(p), c))
        /\ SumOver(fCurrPathLengthList, DOMAIN fCurrPathLengthList) =
               Cardinality(CellsInside(geom, x, RayDirection(p)))

\* A ray has crossed the two slabs of oxygen and the slab of iron between
\* them, and the oxygen entry is the sum of the two widths.
C27_Witness ==
    /\ Returned("ComputePathLengths") /\ AllPure(geom)
    /\ Len(Geometries[geom].vols) = 4
    /\ fCurrPathLengthList[IonPdgCode(16, 8)] = 2
    /\ fCurrPathLengthList[IonPdgCode(55, 26)] = 1

\* What a step of the re-march of GenerateVertex adds at the point pt: the
\* fixed step times the density, in a volume of the target code.
WeightAt(g, pt, d, tgt, n) ==
    IF IsOutside(n) \/ ~(CurrentVolume(g, n).med /\ CurrentVolume(g, n).mat)
    THEN 0
    ELSE WeightedStep(CurrentVolume(g, n).material, tgt, StepIncrease)

WeightAhead(g, pt, d, tgt) ==
    WeightAt(g, pt, d, tgt, CHOOSE n \in FindNode(g, pt, d) : TRUE)

\* C28: when the first pass of GenerateVertex found a positive weighted
\* length, the re-march ends because the weighted length it accumulates has
\* reached the value drawn, and the vertex returned is the last position
\* stepped to before that: the length accumulated up to the vertex is below
\* the value drawn and the length one step further is at or above it.
C28_RemarchEndsOnTarget ==
    [][(pc = "vtx" /\ pc' = "idle" /\ outcome' = "returned" /\ dist > 0) =>
          /\ fCurrVertex' = xx
          /\ BelowDrawn(distToVtx, rnd, dist)
          /\ ~BelowDrawn(AddD(distToVtx,
                              WeightAhead(geom, Advance(xx, StepIncrease, p),
                                          curDirection, tgtpdg)),
                         rnd, dist)
      ]_vars

\* The side of the World bounding box each face is on, along the axis
\* normal to it: -1 where the coordinate is the origin minus the
\* half-length, 1 where it is the origin plus the half-length.
SideOfFace ==
    [top |-> 1, bottom |-> -1, left |-> -1, right |-> 1, back |-> -1,
     front |-> 1]

\* A point has been drawn on a face; a ray has been drawn from it.
PointDrawn == pc \in { "ray", "cmpl" }
RayDrawn == pc = "cmpl" \/ (pc = "ray" /\ Rgen > 0)

\* C29: every start point SetVtxMaterial draws for a face lies on that face
\* of the bounding box of the World volume (on its side along the normal
\* axis, within the box along the line), and the component of every
\* direction along the normal axis points to the interior or is zero:
\* negative or zero on top, the right face and the front face, positive or
\* zero on the bottom, the left face and the back face.
C29_FacesInward ==
    /\ PointDrawn =>
          /\ xyzN = SideOfFace[Faces[face]]
          /\ BBoxLo(geom) <= xyz /\ xyz <= BBoxHi(geom)
          /\ Faces[face] = "left" => xyz = BBoxLo(geom)
          /\ Faces[face] = "right" => xyz = BBoxHi(geom)
    /\ RayDrawn =>
          /\ directionN * SideOfFace[Faces[face]] <= 0
          /\ Faces[face] = "left" => direction >= 0
          /\ Faces[face] = "right" => direction <= 0

\* A march is under way on a ray drawn from the front face, the sixth
\* block, after the marches of the other five faces.
C29_Witness ==
    /\ pc = "cmpl" /\ Faces[face] = "front"
    /\ xyzN = 1 /\ directionN = -1
    /\ ntrials = 5 * maxPoints * maxRays + 1

\* The list ComputePathLengths returns for the ray of a trial, marched in
\* full; << >> if that march does not end.
FullMarch(g, pt, own) == FreshPathLengths(g, pt, own)

\* C30: the length a bounded march of ComputeMaxPathLength returns for a
\* target is at most the entry of that target in the list that
\* ComputePathLengths returns for the same start point and direction; so
\* the maximum SetVtxMaterial keeps never exceeds the largest full path
\* length of a sampled ray, mixtures included.
C30_UnderEstimate ==
    (/\ pc = "ray" /\ Rgen > 0
     /\ tgtpdg \in DOMAIN FullMarch(geom, xyz, direction)) =>
        Length <= FullMarch(geom, xyz, direction)[tgtpdg]

\* The material holds the code: as its own, or as that of an element.
HoldsCode(m, code) ==
    \/ OwnCode(m) = code
    \/ \E i \in DOMAIN MaterialCodes(m) : MaterialCodes(m)[i] = code

\* Every material of the geometry that holds the code has a positive
\* density.
PositiveDensity(g, code) ==
    \A i \in DOMAIN Geometries[g].vols :
        (/\ Geometries[g].vols[i].med /\ Geometries[g].vols[i].mat
         /\ HoldsCode(Geometries[g].vols[i].material, code)) =>
            Geometries[g].vols[i].material.density > 0

\* C31: for a registered isotope of positive density, if ComputePathLengths
\* gives it a positive length on a ray, GenerateVertex on the same ray sums a
\* positive weighted length for it and does not return as not found, also
\* when the isotope lies on the ray only as an element of a mixture.
C31_MarchesAgree ==
    (/\ Returned("GenerateVertex") /\ ~metNull /\ geom # 0
     /\ tgtpdg \in DOMAIN FullMarch(geom, x, p)
     /\ FullMarch(geom, x, p)[tgtpdg] > 0
     /\ PositiveDensity(geom, tgtpdg)) => dist > 0

\* SetVtxMaterial is to refuse the code: no geometry is loaded, the code is
\* not registered, or no volume is named "World".
ToRefuse(g, list, code) ==
    \/ g = 0
    \/ \A i \in DOMAIN list : list[i] # code
    \/ \A i \in DOMAIN Geometries[g].vols : Geometries[g].vols[i].name # "World"

\* The step is a call of SetVtxMaterial.
SVMCalled == pc = "idle" /\ op' = "SetVtxMaterial"

\* C32: a call of SetVtxMaterial for a code it is to refuse returns 0 at
\* once, with the selected material -1 and no trial run; a call for any
\* other code selects the code, and the code is still selected when the
\* call returns.
C32_RefusalsReturnZero ==
    /\ [][SVMCalled =>
             IF ToRefuse(geom, fCurrPDGCodeList, tgtpdg')
             THEN /\ pc' = "idle" /\ outcome' = "returned"
                  /\ retval' = 0 /\ fMaterial' = -1 /\ ntrials' = 0
             ELSE /\ pc' = "point" /\ fMaterial' = tgtpdg'
         ]_vars
    /\ [](Returned("SetVtxMaterial") =>
             IF ToRefuse(geom, fCurrPDGCodeList, tgtpdg)
             THEN retval = 0 /\ fMaterial = -1
             ELSE fMaterial = tgtpdg)

\* A call for a registered code has been refused in the geometry whose top
\* volume is not named "World", after a call of GenerateVertex had returned
\* a nonzero vertex.
C32_Witness ==
    /\ Returned("SetVtxMaterial")
    /\ geom # 0 /\ ExistsInPDGCodeList(fCurrPDGCodeList, tgtpdg)
    /\ ~WorldFound(geom)
    /\ fMaterial = -1 /\ retval = 0 /\ fCurrVertex # 0

\* The step belongs to a call of one of the operations of os.
StepOf(os) == op' \in os

\* What a step may change of the path lengths and of the vertex.
FrameRule ==
    /\ fCurrPathLengthList' # fCurrPathLengthList
           => StepOf({ "ComputePathLengths" })
    /\ StepOf({ "ComputePathLengths", "SetVtxMaterial" })
           => fCurrVertex' = fCurrVertex

\* C33: the path length list changes only in the steps of ComputePathLengths
\* (GenerateVertex, SetVtxMaterial and ListOfTargetNuclei leave it as it
\* is), and the steps of ComputePathLengths and of SetVtxMaterial leave the
\* current vertex as it is.
C33_ListAndVertexFramed == [][FrameRule]_vars

\* SetVtxMaterial has returned a positive maximum while the path lengths of
\* an earlier ComputePathLengths and the vertex of an earlier GenerateVertex
\* stand.
C33_Witness ==
    /\ Returned("SetVtxMaterial") /\ retval > 0
    /\ fCurrVertex # 0
    /\ \E c \in DOMAIN fCurrPathLengthList : fCurrPathLengthList[c] > 0

\* The points of the ray of origin o and momentum mom that are k steps of
\* StepIncrease ahead of the origin, k >= 0.
StepsAhead(o, mom) ==
    { o + k * StepIncrease * (mom \div Abs(mom)) : k \in 0 .. 2 * Far }

\* C34: the vertex of a call of GenerateVertex that found the target on the
\* ray is the origin plus a whole number k >= 0 of steps of StepIncrease
\* along the direction: it is never behind the origin.
C34_VertexAheadOfOrigin ==
    (Returned("GenerateVertex") /\ dist > 0 /\ p # 0)
        => fCurrVertex \in StepsAhead(x, p)

\* A call has returned a vertex two steps or more ahead of its origin,
\* against the x axis.
C34_Witness ==
    /\ Returned("GenerateVertex") /\ dist > 0 /\ p < 0
    /\ fCurrVertex \in StepsAhead(x, p)
    /\ fCurrVertex <= x - 2 * StepIncrease

\* A call has returned its origin as the vertex: the second march stopped
\* after its first step.
C34_WitnessOrigin ==
    /\ Returned("GenerateVertex") /\ dist > 0 /\ p # 0
    /\ fCurrVertex = x /\ x # 0

\* The step leaves the event loop.
LoopLeft == dpc = "loop" /\ dpc' # "loop"

\* The ways out of the event loop: the count of -n is reached, the exposure
\* of -e is reached, or the flux ntuple has no entry left.
ExitRule ==
    LoopLeft =>
        \/ ievent = gOptNev /\ ievent' = ievent /\ dpc' = "finished"
        \/ /\ ~gOptUsingHistFlux /\ gOptPOT > 0
           /\ fpot * PscDen >= gOptPOT * psc /\ dpc' = "finished"
        \/ /\ ~gOptUsingHistFlux /\ ievent' = ievent
           /\ fpot' = FluxEntries /\ dpc' = "finished"

\* C35: the event loop is left only with the event counter equal to the N
\* of -n, with the exposure of -e reached, or at the end of the flux ntuple;
\* an iteration that got no event for any other reason is followed by the
\* next one, whatever the number of such iterations before it.
C35_LoopEndsByCountOrFlux == [][ExitRule]_vars

\* C36: in a run whose command line GetCommandLineArgs accepted, with the
\* flux taken from histograms (numi_flux_driver null), no step of the event
\* loop or of the end of the job calls through numi_flux_driver: the run
\* never ends in such a call.
C36_NullFluxDriverUnused ==
    (Accepted /\ gOptUsingHistFlux) => dpc # "crashed"

\* The recoil nucleon of the record is at position i: the first particle
\* with the recoil code in a stable final state.
RecoilAt(rec, i) ==
    /\ rec.particles[i].pdg = rec.recoil /\ rec.particles[i].ist = 1
    /\ \A j \in 1 .. i - 1 :
          ~(rec.particles[j].pdg = rec.recoil /\ rec.particles[j].ist = 1)

\* The target is a nucleus, the recoil code is not zero, the recoil nucleon
\* is found and its momentum is strictly below the Fermi momentum.
BlockingCase(rec) ==
    /\ rec.target.IsNucleus
    /\ rec.recoil # 0
    /\ \E i \in DOMAIN rec.particles :
          /\ RecoilAt(rec, i)
          /\ rec.particles[i].P
                 < FindClosestKF(rec.target.PDGCode, rec.recoil)

\* What a call of the current ProcessEventRecord does.
BlockerRule ==
    (ppc = "configured" /\ called' = "current") =>
        IF BlockingCase(event_rec)
        THEN /\ ppc' = "thrown"
             /\ exception'.thrown /\ exception'.fastForward
             /\ event_rec'.flags = event_rec.flags \cup { "kPauliBlock" }
             /\ event_rec' = [event_rec EXCEPT !.flags = event_rec'.flags]
        ELSE /\ ppc' = "returned"
             /\ event_rec' = event_rec
             /\ exception' = NoException

\* C37: the current ProcessEventRecord sets the flag kPauliBlock and throws
\* an EVGThreadException with fast-forward on exactly when the target is a
\* nucleus, the recoil code is not zero, a recoil nucleon in a stable final
\* state is found and its |p| is strictly below kf; in every other case,
\* |p| = kf and a free nucleon among them, it returns and leaves the record
\* and its flags as they were.
C37_BlockedIffBelowKF == [][BlockerRule]_vars

\* An event on a nucleus with a flag already set was blocked: its first
\* particle is not the recoil nucleon, its second is, below kf.
C37_Witness ==
    /\ ppc = "thrown" /\ called = "current"
    /\ event_rec.flags = { "kGenericErr", "kPauliBlock" }
    /\ exception.fastForward
    /\ Len(event_rec.particles) = 2
    /\ RecoilAt(event_rec, 2)

\* An event whose recoil nucleon has |p| = kf was let through.
C37_WitnessAtKF ==
    /\ ppc = "returned" /\ called = "current"
    /\ event_rec.target.IsNucleus /\ event_rec.recoil # 0
    /\ \E i \in DOMAIN event_rec.particles :
          /\ RecoilAt(event_rec, i)
          /\ event_rec.particles[i].P
                 = FindClosestKF(event_rec.target.PDGCode, event_rec.recoil)

\* C38: when the earlier ProcessEventRecord has returned, the Pauli-blocked
\* switch of the event is TRUE only if the target is a nucleus, the recoil
\* nucleon was found and its |p| is below kf: an event on a free nucleon,
\* or with |p| >= kf, is not marked.
C38_SwitchOnlyWhenBlocked ==
    (called = "earlier" /\ ppc = "returned" /\ event_rec.IsPauliBlocked)
        => BlockingCase(event_rec)

====
